---- MODULE Spec2Model ----
(***************************************************************************)
(* Model of the animation timeline engine of kosmos                        *)
(* (framework/src/animations/timeline.rs).                                 *)
(*                                                                         *)
(* Times are f32 seconds in the source.  Here a time is an integer number  *)
(* of ticks of half a second (2.0s is 4, 2.5s is 5), speed is a whole      *)
(* factor, and the one f32 value that is not a number, NaN, is kept as a   *)
(* value of its own: every arithmetic operator and comparison below treats *)
(* it as IEEE-754 does.  On these values the f32 sums, products and        *)
(* remainders of the source are exact.                                     *)
(*                                                                         *)
(* The timeline is configured (keyframes, mode, speed, delay, callbacks)   *)
(* while it is Idle and played afterwards: construction and playback are   *)
(* disjoint phases of its use.                                             *)
(***************************************************************************)
EXTENDS Integers, Sequences, FiniteSets, TLC

\* ------------------------------------------------------------------ bounds
\* keyframe times handed to add_keyframe (1.5s, 2.0s)
KeyTimes == {3, 4}
\* frame deltas handed to update(): 0, 1.0s, 2.5s, 3.0s
Deltas == {0, 2, 5, 6}
\* arguments of set_speed and set_delay
SpeedArgs == {-1, 0, 1, 2}
DelayArgs == {-1, 0, 3}
\* counts N of Repeat(N)
MaxRepeatN == 2
\* update() is not taken once repeat_count has reached this cap
MaxRepeatCount == MaxRepeatN + 1
\* the sum of the deltas played is followed up to this cap
MaxPlayed == 12

\* keyframes a standalone track is given at most
MaxTrackLen == 3
\* keyframe times of that track (0s, 1.0s, 2.0s) and the times it is sampled
\* at (-1.0s, 0s, 0.5s, 1.0s, 1.5s, 2.0s, 5.0s)
TrackTimes == {0, 2, 4}
SampleTimes == {-2, 0, 1, 2, 3, 4, 10}
\* keyframes a track of plain keyframes is given at most
MaxSegmentKeyframes == 4

\* keyframes a builder chain adds at most, and the cursor it reaches at most
MaxKeyframes == 2
MaxCursor == 3
\* keyframes the timeline of an animated entity gets at most
MaxFrameKeyframes == 2
\* frame times (0.5s, 1.0s)
FrameDeltas == {1, 2}
\* the delta handed to move_by (on both axes) and rotate_by
ByDelta == 1
\* duration arguments of the builder calls (0s, 0.5s, 1.0s)
BuilderDurations == {0, 1, 2}
\* shapes the scene starts with (each Draggable and Selectable), and the
\* entities spawned on top of them at most
InitialEntities == 2
MaxSpawned == 3

\* ------------------------------------------------------------------ floats
NaN == -1000000

IsNaN(x) == x = NaN

\* a + b, a - b of f32
FAdd(a, b) == IF IsNaN(a) \/ IsNaN(b) THEN NaN ELSE a + b
FSub(a, b) == IF IsNaN(a) \/ IsNaN(b) THEN NaN ELSE a - b
\* a >= b, a <= b, a < b of f32: false when either side is NaN
FGe(a, b) == ~IsNaN(a) /\ ~IsNaN(b) /\ a >= b
FLe(a, b) == ~IsNaN(a) /\ ~IsNaN(b) /\ a <= b
FLt(a, b) == ~IsNaN(a) /\ ~IsNaN(b) /\ a < b
\* a % b of f32 for a >= 0: the remainder, NaN when b is 0
FRem(a, b) == IF IsNaN(a) \/ IsNaN(b) \/ b = 0 THEN NaN ELSE a % b
\* f32::max(a, 0.0)
FMax0(a) == IF a > 0 THEN a ELSE 0
\* f32::clamp(x, lo, hi): NaN stays NaN
FClamp(x, lo, hi) == IF IsNaN(x) THEN NaN ELSE IF x < lo THEN lo ELSE IF x > hi THEN hi ELSE x

\* ------------------------------------------------------------------- types
AnimationState == {"Idle", "Playing", "Paused", "Finished"}

Once == [kind |-> "Once", count |-> 0]
Loop == [kind |-> "Loop", count |-> 0]
PingPong == [kind |-> "PingPong", count |-> 0]
Repeat(n) == [kind |-> "Repeat", count |-> n]
AnimationMode == {Once, Loop, PingPong} \cup {Repeat(n) : n \in 0..MaxRepeatN}

VARIABLES
    state,          \* AnimationTimeline.state
    mode,           \* AnimationTimeline.mode
    duration,       \* AnimationTimeline.duration
    elapsed_time,   \* AnimationTimeline.elapsed_time
    speed,          \* AnimationTimeline.speed
    repeat_count,   \* AnimationTimeline.repeat_count
    reverse,        \* AnimationTimeline.reverse
    delay,          \* AnimationTimeline.delay
    delay_elapsed,  \* AnimationTimeline.delay_elapsed
    on_start,       \* AnimationTimeline.on_start is Some
    on_complete,    \* AnimationTimeline.on_complete is Some
    fired,          \* callbacks the last operation invoked, in order
    last,           \* the last operation and its delta
    completes,      \* on_complete invocations since play() last left Idle
    played,         \* sum of the deltas of update() while Playing since then
    before,         \* state the last operation was called in
    replayed,       \* this play-through began with restart() when Finished
    updates,        \* update() calls made while Playing since then, in
                    \* Repeat mode (counted up to MaxRepeatCount)
    track,          \* KeyframeTrack.keyframes of a standalone track
    sampled,        \* the last get_value_at call: its time and its result
    tracks,         \* AnimationTimeline.tracks: channel name -> keyframes
    current_time,   \* AnimationBuilder.current_time
    built,          \* build() has consumed the builder
    divided,        \* what the last get_value_at call divided by
    eased,          \* the last Easing::apply call: curve, argument, result
    chain_sum,      \* sum of the durations of the calls of the chain so far,
                    \* -1 once the chain has a call without a duration
    target,         \* Transform and ColorMaterial of the animated entity
    auto_apply,     \* AnimationComponent.auto_apply
    frame,          \* the last frame: whether apply_animation_properties
                    \* applied values, and the values it got
    alive,          \* the entities of the world
    draggable,      \* entities with Draggable
    selectable,     \* entities with Selectable
    bounds,         \* entities with GeometryBounds
    selected,       \* entities with Selected
    dragging,       \* entities with Dragging
    preview,        \* entities with GeometryPreview
    transforming,   \* entities with Transforming
    border_parent,  \* SelectionBorder.parent of the entities that have one
    interaction_mode,   \* the resource InteractionMode
    selected_entity,    \* CurrentSelection.selected_entity
    border_entity,      \* CurrentSelection.border_entity
    preview_entity,     \* CurrentTransformData.preview_entity
    select_events,          \* SelectEvent written and not read yet
    deselect_events,        \* DeselectEvent written and not read yet
    start_drag_events,      \* StartDragEvent written and not read yet
    start_transform_events, \* StartTransformEvent written and not read yet
    commands,       \* commands queued and not applied yet
    next_entity,    \* the id the next spawn gets
    phase,          \* between two frames, or inside the Update schedule
    left,           \* the left mouse button in this frame
    key,            \* the key just pressed in this frame
    cursor,         \* the entity under the cursor in this frame
    drag_pc,        \* the system of the drag chain that runs next
    transform_pc,   \* the system of the transform chain that runs next
    select_pc,      \* the system of the select chain that runs next
    synced,         \* sync points passed in this frame
    ran,            \* chains whose run condition held in this frame
    mode0,          \* InteractionMode when this frame began
    preview0        \* entities with GeometryPreview when this frame began

tlvars == <<state, mode, duration, elapsed_time, speed, repeat_count, reverse,
            delay, delay_elapsed, on_start, on_complete>>
histvars == <<fired, last, completes, played, before, replayed, updates>>
trackvars == <<track, sampled, divided, eased>>
buildvars == <<tracks, current_time, built, chain_sum>>
framevars == <<target, auto_apply, frame>>
ecsvars == <<alive, draggable, selectable, bounds, selected, dragging, preview,
             transforming, border_parent>>
resvars == <<interaction_mode, selected_entity, border_entity, preview_entity>>
eventvars == <<select_events, deselect_events, start_drag_events,
               start_transform_events>>
schedvars == <<commands, next_entity, phase, left, key, cursor, drag_pc,
               transform_pc, select_pc, synced, ran, mode0, preview0>>
uivars == <<ecsvars, resvars, eventvars, schedvars>>
vars == <<tlvars, histvars, trackvars, buildvars, framevars, uivars>>

\* the timeline as one value; calls collects the callbacks an operation invokes
Self == [state |-> state, mode |-> mode, duration |-> duration,
         elapsed_time |-> elapsed_time, speed |-> speed,
         repeat_count |-> repeat_count, reverse |-> reverse,
         delay |-> delay, delay_elapsed |-> delay_elapsed,
         on_start |-> on_start, on_complete |-> on_complete,
         calls |-> <<>>]

\* if let Some(callback) = &self.<cb> { callback(); }
Invoke(tl, cb) == IF tl[cb] THEN [tl EXCEPT !.calls = Append(@, cb)] ELSE tl

\* ------------------------------------------------------------- operations
\* play() that takes Paused for Idle and starts over
play_resets_on_resume(tl) ==
    IF tl.state = "Idle" \/ tl.state = "Paused"
    THEN Invoke([tl EXCEPT !.state = "Playing", !.elapsed_time = 0,
                           !.delay_elapsed = 0, !.repeat_count = 0,
                           !.reverse = FALSE], "on_start")
    ELSE tl

play(tl) ==
    IF tl.state = "Idle"
    THEN Invoke([tl EXCEPT !.state = "Playing", !.elapsed_time = 0,
                           !.delay_elapsed = 0, !.repeat_count = 0,
                           !.reverse = FALSE], "on_start")
    ELSE IF tl.state = "Paused"
    THEN [tl EXCEPT !.state = "Playing"]
    ELSE tl

\* pause() that pauses whatever has left Idle
pause_when_started(tl) ==
    IF tl.state # "Idle" THEN [tl EXCEPT !.state = "Paused"] ELSE tl

pause(tl) ==
    IF tl.state = "Playing" THEN [tl EXCEPT !.state = "Paused"] ELSE tl

\* stop() that forgets the delay already consumed
stop_keeps_delay(tl) ==
    [tl EXCEPT !.state = "Idle", !.elapsed_time = 0,
               !.repeat_count = 0, !.reverse = FALSE]

\* stop() that leaves the direction as it is
stop_keeps_reverse(tl) ==
    [tl EXCEPT !.state = "Idle", !.elapsed_time = 0, !.delay_elapsed = 0,
               !.repeat_count = 0]

stop(tl) ==
    [tl EXCEPT !.state = "Idle", !.elapsed_time = 0, !.delay_elapsed = 0,
               !.repeat_count = 0, !.reverse = FALSE]

\* restart() that only calls play()
restart_without_stop(tl) == play(tl)

restart(tl) == play(stop(tl))

\* elapsed_time -= / += delta * speed
advance(tl, delta) ==
    LET adjusted_delta == delta * tl.speed
    IN  IF tl.reverse
        THEN [tl EXCEPT !.elapsed_time = FSub(@, adjusted_delta)]
        ELSE [tl EXCEPT !.elapsed_time = FAdd(@, adjusted_delta)]

\* Once arm that finishes only past the duration, not at it
arm_Once_strict(tl) ==
    IF FGe(tl.elapsed_time, tl.duration) /\ tl.elapsed_time # tl.duration
    THEN Invoke([tl EXCEPT !.elapsed_time = tl.duration,
                           !.state = "Finished"], "on_complete")
    ELSE tl

\* AnimationMode::Once arm
arm_Once(tl) ==
    IF FGe(tl.elapsed_time, tl.duration)
    THEN Invoke([tl EXCEPT !.elapsed_time = tl.duration,
                           !.state = "Finished"], "on_complete")
    ELSE tl

\* Loop arm that ends the animation at the boundary as the Once arm does
arm_Loop_finishes(tl) ==
    IF FGe(tl.elapsed_time, tl.duration)
    THEN Invoke([tl EXCEPT !.elapsed_time = tl.duration,
                           !.state = "Finished"], "on_complete")
    ELSE tl

\* Loop arm that wraps by subtracting the duration once
arm_Loop_subtracts(tl) ==
    IF FGe(tl.elapsed_time, tl.duration)
    THEN [tl EXCEPT !.elapsed_time = FSub(@, tl.duration)]
    ELSE tl

\* AnimationMode::Loop arm
arm_Loop(tl) ==
    IF FGe(tl.elapsed_time, tl.duration)
    THEN [tl EXCEPT !.elapsed_time = FRem(@, tl.duration)]
    ELSE tl

\* PingPong arm that turns around only below 0, not at it
arm_PingPong_strict(tl) ==
    IF ~tl.reverse /\ FGe(tl.elapsed_time, tl.duration)
    THEN [tl EXCEPT !.elapsed_time = tl.duration, !.reverse = TRUE]
    ELSE IF tl.reverse /\ FLt(tl.elapsed_time, 0)
    THEN [tl EXCEPT !.elapsed_time = 0, !.reverse = FALSE,
                    !.repeat_count = @ + 1]
    ELSE tl

\* AnimationMode::PingPong arm
arm_PingPong(tl) ==
    IF ~tl.reverse /\ FGe(tl.elapsed_time, tl.duration)
    THEN [tl EXCEPT !.elapsed_time = tl.duration, !.reverse = TRUE]
    ELSE IF tl.reverse /\ FLe(tl.elapsed_time, 0)
    THEN [tl EXCEPT !.elapsed_time = 0, !.reverse = FALSE,
                    !.repeat_count = @ + 1]
    ELSE tl

\* Repeat arm that compares repeat_count > count
arm_Repeat_one_more(tl, count) ==
    IF FGe(tl.elapsed_time, tl.duration)
    THEN LET t1 == [tl EXCEPT !.repeat_count = @ + 1]
         IN  IF t1.repeat_count > count
             THEN Invoke([t1 EXCEPT !.elapsed_time = tl.duration,
                                    !.state = "Finished"], "on_complete")
             ELSE [t1 EXCEPT !.elapsed_time = FRem(@, tl.duration)]
    ELSE tl

\* Repeat arm that counts every duration the advance went past
arm_Repeat_per_span(tl, count) ==
    IF FGe(tl.elapsed_time, tl.duration)
    THEN LET spans == IF tl.duration > 0 THEN tl.elapsed_time \div tl.duration ELSE 1
             t1 == [tl EXCEPT !.repeat_count = @ + spans]
         IN  IF t1.repeat_count >= count
             THEN Invoke([t1 EXCEPT !.elapsed_time = tl.duration,
                                    !.state = "Finished"], "on_complete")
             ELSE [t1 EXCEPT !.elapsed_time = FRem(@, tl.duration)]
    ELSE tl

\* AnimationMode::Repeat(count) arm
arm_Repeat(tl, count) ==
    IF FGe(tl.elapsed_time, tl.duration)
    THEN LET t1 == [tl EXCEPT !.repeat_count = @ + 1]
         IN  IF t1.repeat_count >= count
             THEN Invoke([t1 EXCEPT !.elapsed_time = tl.duration,
                                    !.state = "Finished"], "on_complete")
             ELSE [t1 EXCEPT !.elapsed_time = FRem(@, tl.duration)]
    ELSE tl

\* match self.mode { ... }
mode_arm(tl) ==
    CASE tl.mode.kind = "Once" -> arm_Once(tl)
      [] tl.mode.kind = "Loop" -> arm_Loop(tl)
      [] tl.mode.kind = "PingPong" -> arm_PingPong(tl)
      [] tl.mode.kind = "Repeat" -> arm_Repeat(tl, tl.mode.count)

\* self.elapsed_time = self.elapsed_time.clamp(0.0, self.duration)
clamp_elapsed(tl) ==
    [tl EXCEPT !.elapsed_time = FClamp(@, 0, tl.duration)]

update_animation(tl, delta) == clamp_elapsed(mode_arm(advance(tl, delta)))

\* update() that drops what is left of the frame when the delay runs out
update_drops_overflow(tl, delta) ==
    IF tl.state # "Playing"
    THEN tl
    ELSE IF tl.delay_elapsed < tl.delay
    THEN LET t1 == [tl EXCEPT !.delay_elapsed = @ + delta]
         IN  IF t1.delay_elapsed < t1.delay
             THEN t1
             ELSE update_animation(t1, 0)
    ELSE update_animation(tl, delta)

\* update() that returns early only when the timeline is Idle or Finished
update_while_paused(tl, delta) ==
    IF tl.state = "Idle" \/ tl.state = "Finished"
    THEN tl
    ELSE IF tl.delay_elapsed < tl.delay
    THEN LET t1 == [tl EXCEPT !.delay_elapsed = @ + delta]
         IN  IF t1.delay_elapsed < t1.delay
             THEN t1
             ELSE update_animation(t1, t1.delay_elapsed - t1.delay)
    ELSE update_animation(tl, delta)

update(tl, delta) ==
    IF tl.state # "Playing"
    THEN tl
    ELSE IF tl.delay_elapsed < tl.delay
    THEN LET t1 == [tl EXCEPT !.delay_elapsed = @ + delta]
         IN  IF t1.delay_elapsed < t1.delay
             THEN t1
             ELSE update_animation(t1, t1.delay_elapsed - t1.delay)
    ELSE update_animation(tl, delta)

set_mode(tl, m) == [tl EXCEPT !.mode = m]

\* set_speed that stores its argument as it comes
set_speed_raw(tl, s) == [tl EXCEPT !.speed = s]

\* self.speed = speed.max(0.0)
set_speed(tl, s) == [tl EXCEPT !.speed = FMax0(s)]

\* self.delay = delay.max(0.0)
set_delay(tl, d) == [tl EXCEPT !.delay = FMax0(d)]

\* ------------------------------------------------- values, easing, tracks
\* An f32 value of a property is a fraction n/d in lowest terms with d > 0;
\* d = 0 stands for what a division by zero gives: NaN (0/0), +inf (1/0)
\* and -inf (-1/0).
RECURSIVE Gcd(_, _)
Gcd(a, b) == IF b = 0 THEN a ELSE Gcd(b, a % b)

Abs(x) == IF x < 0 THEN -x ELSE x
Sign(x) == IF x > 0 THEN 1 ELSE IF x < 0 THEN -1 ELSE 0

Frac(n, d) ==
    IF d = 0 THEN [n |-> Sign(n), d |-> 0]
    ELSE LET g == Gcd(Abs(n), Abs(d))
         IN  [n |-> (Sign(d) * n) \div g, d |-> Abs(d) \div g]

R(i) == [n |-> i, d |-> 1]
RNaN == [n |-> 0, d |-> 0]

\* a + b, a - b, a * b of f32 (inf - inf and 0 * inf are NaN)
RAdd(a, b) ==
    IF a.d = 0 /\ b.d = 0 THEN (IF a.n = b.n THEN a ELSE RNaN)
    ELSE IF a.d = 0 THEN a
    ELSE IF b.d = 0 THEN b
    ELSE LET g == Gcd(a.d, b.d)
         IN  Frac(a.n * (b.d \div g) + b.n * (a.d \div g), (a.d \div g) * b.d)
RNeg(a) == [n |-> -a.n, d |-> a.d]
RSub(a, b) == RAdd(a, RNeg(b))
RMul(a, b) ==
    IF a.d = 0 \/ b.d = 0 THEN [n |-> Sign(a.n) * Sign(b.n), d |-> 0]
    ELSE Frac(a.n * b.n, a.d * b.d)
\* (a - b) / (c - b) of f32 times
RDiv(a, b) == Frac(a, b)
\* t.clamp(0.0, 1.0)
RClamp01(t) ==
    IF t = RNaN THEN RNaN
    ELSE IF t.n < 0 THEN R(0)
    ELSE IF t.d = 0 \/ t.n > t.d THEN R(1)
    ELSE t

\* a < b of f32 (false when either is NaN)
RLt(a, b) ==
    IF a = RNaN \/ b = RNaN THEN FALSE
    ELSE IF a.d = 0 /\ b.d = 0 THEN a.n < b.n
    ELSE IF a.d = 0 THEN a.n < 0
    ELSE IF b.d = 0 THEN b.n > 0
    ELSE a.n * b.d < b.n * a.d

\* f32::sqrt where the root is a fraction; elsewhere the root stands for
\* itself
RSqrt(x) ==
    IF x.d > 0 /\ x.n >= 0 /\ (\E r \in 0..x.n : r * r = x.n) /\ (\E r \in 1..x.d : r * r = x.d)
    THEN Frac(CHOOSE r \in 0..x.n : r * r = x.n, CHOOSE r \in 1..x.d : r * r = x.d)
    ELSE [sqrt |-> x]

\* 2.0_f32.powf(..) * (..).sin() of the elastic curves strictly inside
\* (0, 1): not a fraction, it stands for itself
Elastic(easing, t) == [curve |-> easing, at |-> t]

\* the curves keyframes are eased with in the specifications below
Easing == {"Linear", "EaseIn"}

\* enum Easing
Curves ==
    {"Linear", "EaseIn", "EaseOut", "EaseInOut",
     "EaseInQuad", "EaseOutQuad", "EaseInOutQuad",
     "EaseInCubic", "EaseOutCubic", "EaseInOutCubic",
     "EaseInQuart", "EaseOutQuart", "EaseInOutQuart",
     "EaseInElastic", "EaseOutElastic", "EaseInOutElastic",
     "EaseInBounce", "EaseOutBounce", "EaseInOutBounce",
     "EaseInBack", "EaseOutBack", "EaseInOutBack",
     "EaseInCirc", "EaseOutCirc", "EaseInOutCirc"}

RECURSIVE apply(_, _)

\* match self { .. } of Easing::apply, on the t it evaluates
curve(easing, t) ==
    LET Sq(x) == RMul(x, x)
        Cube(x) == RMul(RMul(x, x), x)
        Fourth(x) == RMul(RMul(RMul(x, x), x), x)
        half == Frac(1, 2)
        s == Frac(170158, 100000)
        s2 == RMul(Frac(170158, 100000), Frac(1525, 1000))
    IN  CASE easing = "Linear" -> t
          [] easing \in {"EaseIn", "EaseInQuad"} -> RMul(t, t)
          [] easing \in {"EaseOut", "EaseOutQuad"} -> RMul(t, RSub(R(2), t))
          [] easing \in {"EaseInOut", "EaseInOutQuad"} ->
                IF RLt(t, half) THEN RMul(RMul(R(2), t), t)
                ELSE RAdd(R(-1), RMul(RSub(R(4), RMul(R(2), t)), t))
          [] easing = "EaseInCubic" -> Cube(t)
          [] easing = "EaseOutCubic" -> RAdd(Cube(RSub(t, R(1))), R(1))
          [] easing = "EaseInOutCubic" ->
                IF RLt(t, half) THEN RMul(R(4), Cube(t))
                ELSE RAdd(R(1), RMul(Cube(RSub(RMul(R(2), t), R(2))), half))
          [] easing = "EaseInQuart" -> Fourth(t)
          [] easing = "EaseOutQuart" -> RSub(R(1), Fourth(RSub(t, R(1))))
          [] easing = "EaseInOutQuart" ->
                IF RLt(t, half) THEN RMul(R(8), Fourth(t))
                ELSE RSub(R(1), RMul(R(8), Fourth(RSub(t, R(1)))))
          [] easing \in {"EaseInElastic", "EaseOutElastic", "EaseInOutElastic"} ->
                IF t = R(0) \/ t = R(1) THEN t ELSE Elastic(easing, t)
          [] easing = "EaseInBounce" ->
                RSub(R(1), apply("EaseOutBounce", RSub(R(1), t)))
          [] easing = "EaseOutBounce" ->
                IF RLt(t, Frac(4, 11))
                THEN RMul(RMul(Frac(121, 16), t), t)
                ELSE IF RLt(t, Frac(8, 11))
                THEN RAdd(RMul(Frac(121, 16), Sq(RSub(t, Frac(6, 11)))), Frac(3, 4))
                ELSE IF RLt(t, Frac(10, 11))
                THEN RAdd(RMul(Frac(121, 16), Sq(RSub(t, Frac(9, 11)))), Frac(15, 16))
                ELSE RAdd(RMul(Frac(121, 16), Sq(RSub(t, Frac(21, 22)))), Frac(63, 64))
          [] easing = "EaseInOutBounce" ->
                IF RLt(t, half)
                THEN RMul(apply("EaseInBounce", RMul(t, R(2))), half)
                ELSE RAdd(RMul(apply("EaseOutBounce", RSub(RMul(t, R(2)), R(1))), half),
                          half)
          [] easing = "EaseInBack" ->
                RMul(Sq(t), RSub(RMul(RAdd(s, R(1)), t), s))
          [] easing = "EaseOutBack" ->
                LET u == RSub(t, R(1))
                IN  RAdd(RMul(Sq(u), RAdd(RMul(RAdd(s, R(1)), u), s)), R(1))
          [] easing = "EaseInOutBack" ->
                LET u == RMul(t, R(2))
                IN  IF RLt(u, R(1))
                    THEN RMul(half, RMul(Sq(u), RSub(RMul(RAdd(s2, R(1)), u), s2)))
                    ELSE LET v == RSub(u, R(2))
                         IN  RMul(half,
                                  RAdd(RMul(Sq(v), RAdd(RMul(RAdd(s2, R(1)), v), s2)),
                                       R(2)))
          [] easing = "EaseInCirc" -> RSub(R(1), RSqrt(RSub(R(1), Sq(t))))
          [] easing = "EaseOutCirc" -> RSqrt(RSub(R(1), Sq(RSub(t, R(1)))))
          [] easing = "EaseInOutCirc" ->
                LET u == RMul(t, R(2))
                IN  IF RLt(u, R(1))
                    THEN RMul(R(-1), RMul(half, RSub(RSqrt(RSub(R(1), Sq(u))), R(1))))
                    ELSE RMul(half, RAdd(RSqrt(RSub(R(1), Sq(RSub(u, R(2))))), R(1)))

\* an apply that evaluates the curve on the t it was handed
apply_unclamped(easing, t0) == curve(easing, t0)

\* Easing::apply: let t = t.clamp(0.0, 1.0); match self { .. }
apply(easing, t0) == curve(easing, RClamp01(t0))

lerp_with_easing(start, end, t0, easing) ==
    LET t == apply(easing, t0)
    IN  RAdd(start, RMul(RSub(end, start), t))

\* AnimatableProperty: the variant, the name of a Custom and the components
\* (x, y of a Vec2, the one value of a scalar)
Position(x, y) == [kind |-> "Position", name |-> "", val |-> <<R(x), R(y)>>]
Rotation(a) == [kind |-> "Rotation", name |-> "", val |-> <<R(a)>>]
Scale(x, y) == [kind |-> "Scale", name |-> "", val |-> <<R(x), R(y)>>]
Opacity(a) == [kind |-> "Opacity", name |-> "", val |-> <<R(a)>>]
Custom(name, a) == [kind |-> "Custom", name |-> name, val |-> <<R(a)>>]

\* Option<AnimatableProperty>
NoProperty == [kind |-> "", name |-> "", val |-> <<>>]
None == [some |-> FALSE, property |-> NoProperty]
Some(p) == [some |-> TRUE, property |-> p]

\* an interpolation that falls back on the keyframe it leaves
interpolate_or_first(a, b, t, easing) ==
    IF a.kind = b.kind /\ (a.kind = "Custom" => a.name = b.name)
    THEN Some([kind |-> a.kind, name |-> a.name,
               val |-> [i \in DOMAIN a.val |->
                            lerp_with_easing(a.val[i], b.val[i], t, easing)]])
    ELSE Some(a)

\* AnimatableProperty::interpolate
interpolate(a, b, t, easing) ==
    IF a.kind = b.kind /\ (a.kind = "Custom" => a.name = b.name)
    THEN Some([kind |-> a.kind, name |-> a.name,
               val |-> [i \in DOMAIN a.val |->
                            lerp_with_easing(a.val[i], b.val[i], t, easing)]])
    ELSE None

Keyframe(time, property, easing) ==
    [easing |-> easing, property |-> property, time |-> time]

\* a sort that places kf before the keyframes of its own time
InsertByTime_before_ties(s, kf) ==
    LET k == Cardinality({i \in 1..Len(s) : s[i].time < kf.time})
    IN  SubSeq(s, 1, k) \o <<kf>> \o SubSeq(s, k + 1, Len(s))

\* the place a stable sort by time gives kf in an already sorted s
InsertByTime(s, kf) ==
    LET k == Cardinality({i \in 1..Len(s) : s[i].time <= kf.time})
    IN  SubSeq(s, 1, k) \o <<kf>> \o SubSeq(s, k + 1, Len(s))

\* keyframes.sort_by(|a, b| a.time.partial_cmp(&b.time).unwrap()): stable
RECURSIVE SortByTime(_)
SortByTime(s) ==
    IF s = <<>> THEN <<>>
    ELSE InsertByTime(SortByTime(SubSeq(s, 1, Len(s) - 1)), s[Len(s)])

\* KeyframeTrack::add_keyframe
track_add_keyframe(keyframes, kf) == SortByTime(Append(keyframes, kf))

\* get_value_at that eases a segment with the curve of the keyframe it leaves
get_value_at_current_easing(keyframes, time) ==
    IF keyframes = <<>> THEN None
    ELSE IF time <= keyframes[1].time THEN Some(keyframes[1].property)
    ELSE IF time >= keyframes[Len(keyframes)].time
    THEN Some(keyframes[Len(keyframes)].property)
    ELSE LET found == {i \in 1..(Len(keyframes) - 1) :
                          time >= keyframes[i].time /\ time <= keyframes[i + 1].time}
         IN  IF found = {} THEN None
             ELSE LET i == CHOOSE j \in found : \A k \in found : j <= k
                      current == keyframes[i]
                      next == keyframes[i + 1]
                      t == RDiv(time - current.time, next.time - current.time)
                  IN  interpolate(current.property, next.property, t, current.easing)

\* KeyframeTrack::get_value_at
get_value_at(keyframes, time) ==
    IF keyframes = <<>> THEN None
    ELSE IF time <= keyframes[1].time THEN Some(keyframes[1].property)
    ELSE IF time >= keyframes[Len(keyframes)].time
    THEN Some(keyframes[Len(keyframes)].property)
    ELSE LET found == {i \in 1..(Len(keyframes) - 1) :
                          time >= keyframes[i].time /\ time <= keyframes[i + 1].time}
         IN  IF found = {} THEN None
             ELSE LET i == CHOOSE j \in found : \A k \in found : j <= k
                      current == keyframes[i]
                      next == keyframes[i + 1]
                      t == RDiv(time - current.time, next.time - current.time)
                  IN  interpolate(current.property, next.property, t, next.easing)

\* the divisions of a get_value_at that has no clamp to the first keyframe
divisions_unclamped_first(keyframes, time) ==
    IF keyframes = <<>> THEN <<>>
    ELSE IF time >= keyframes[Len(keyframes)].time THEN <<>>
    ELSE LET found == {i \in 1..(Len(keyframes) - 1) :
                          time >= keyframes[i].time /\ time <= keyframes[i + 1].time}
         IN  IF found = {} THEN <<>>
             ELSE LET i == CHOOSE j \in found : \A k \in found : j <= k
                  IN  <<keyframes[i + 1].time - keyframes[i].time>>

\* what a get_value_at call divides by: next.time - current.time of the
\* pair its loop stops at, nothing when it returns before the loop or the
\* loop finds no pair
divisions(keyframes, time) ==
    IF keyframes = <<>> THEN <<>>
    ELSE IF time <= keyframes[1].time THEN <<>>
    ELSE IF time >= keyframes[Len(keyframes)].time THEN <<>>
    ELSE LET found == {i \in 1..(Len(keyframes) - 1) :
                          time >= keyframes[i].time /\ time <= keyframes[i + 1].time}
         IN  IF found = {} THEN <<>>
             ELSE LET i == CHOOSE j \in found : \A k \in found : j <= k
                  IN  <<keyframes[i + 1].time - keyframes[i].time>>

\* KeyframeTrack::duration
track_duration(keyframes) ==
    IF keyframes = <<>> THEN 0 ELSE keyframes[Len(keyframes)].time

NoSample == [time |-> 0, result |-> None, taken |-> FALSE]

NoEased == [t |-> R(0), easing |-> "Linear", taken |-> FALSE, value |-> R(0)]

\* progress() that divides whatever the duration is
progress_unguarded(tl) ==
    RClamp01(IF IsNaN(tl.elapsed_time) THEN RNaN
             ELSE Frac(tl.elapsed_time, tl.duration))

\* AnimationTimeline::progress
progress(tl) ==
    IF tl.duration > 0
    THEN RClamp01(IF IsNaN(tl.elapsed_time) THEN RNaN
                  ELSE Frac(tl.elapsed_time, tl.duration))
    ELSE R(0)

\* ------------------------------------------------------------- the builder
Color(r, g, b, a) == [kind |-> "Color", name |-> "", val |-> <<R(r), R(g), R(b), R(a)>>]

\* AnimationTimeline::add_keyframe on the tracks: the entry of the channel,
\* made when missing, takes the keyframe
timeline_add_keyframe(trs, track_name, kf) ==
    [name \in DOMAIN trs \cup {track_name} |->
        IF name = track_name
        THEN track_add_keyframe(IF name \in DOMAIN trs THEN trs[name] ELSE <<>>, kf)
        ELSE trs[name]]

\* a duration that is the end of the shortest track
update_duration_min(trs) ==
    IF DOMAIN trs = {} THEN 0
    ELSE LET ds == {track_duration(trs[name]) : name \in DOMAIN trs}
         IN  CHOOSE d \in ds : \A e \in ds : d <= e

\* AnimationTimeline::update_duration
update_duration(trs) ==
    IF DOMAIN trs = {} THEN 0
    ELSE LET ds == {track_duration(trs[name]) : name \in DOMAIN trs}
         IN  CHOOSE d \in ds : \A e \in ds : e <= d

\* the builder as one value: the tracks and duration of its timeline and
\* its cursor
Builder == [tracks |-> tracks, duration |-> duration, current_time |-> current_time]

\* self.timeline.add_keyframe(track_name, keyframe)
builder_put(b, track_name, kf) ==
    LET trs == timeline_add_keyframe(b.tracks, track_name, kf)
    IN  [b EXCEPT !.tracks = trs, !.duration = update_duration(trs)]

\* a call that puts its keyframe where the cursor was
chain_at_start(b, channel, property, d, easing) ==
    LET start_time == b.current_time
        b1 == [b EXCEPT !.current_time = @ + d]
    IN  builder_put(b1, channel, Keyframe(start_time, property, easing))

\* start_time = current_time; current_time += duration;
\* add_keyframe(channel, Keyframe(start_time + duration, property, easing))
chain(b, channel, property, d, easing) ==
    LET start_time == b.current_time
        b1 == [b EXCEPT !.current_time = @ + d]
    IN  builder_put(b1, channel, Keyframe(start_time + d, property, easing))

move_to(b, x, y, d, easing) == chain(b, "position", Position(x, y), d, easing)
rotate_to(b, angle, d, easing) == chain(b, "rotation", Rotation(angle), d, easing)

\* start_time = current_time; current_time += duration; a first keyframe of
\* the channel's zero at 0.0 when start_time == 0.0; then the keyframe at
\* start_time + duration
chain_by(b, channel, zero, property, d, easing) ==
    LET start_time == b.current_time
        b1 == [b EXCEPT !.current_time = @ + d]
        b2 == IF start_time = 0
              THEN builder_put(b1, channel, Keyframe(0, zero, "Linear"))
              ELSE b1
    IN  builder_put(b2, channel, Keyframe(start_time + d, property, easing))

\* AnimationBuilder::move_by: the keyframe holds delta
move_by(b, dx, dy, d, easing) ==
    chain_by(b, "position", Position(0, 0), Position(dx, dy), d, easing)

\* AnimationBuilder::rotate_by: the keyframe holds delta_angle
rotate_by(b, delta_angle, d, easing) ==
    chain_by(b, "rotation", Rotation(0), Rotation(delta_angle), d, easing)

scale_to_xy(b, x, y, d, easing) == chain(b, "scale", Scale(x, y), d, easing)
scale_to(b, scale, d, easing) == scale_to_xy(b, scale, scale, d, easing)
color_to(b, r, g, bl, a, d, easing) == chain(b, "color", Color(r, g, bl, a), d, easing)
\* opacity.clamp(0.0, 1.0)
fade_to(b, opacity, d, easing) ==
    chain(b, "opacity", Opacity(IF opacity < 0 THEN 0 ELSE IF opacity > 1 THEN 1 ELSE opacity),
          d, easing)

\* a wait that stretches the timeline to the cursor
wait_extends(b, d) ==
    [b EXCEPT !.current_time = @ + d,
              !.duration = IF b.current_time + d > @ THEN b.current_time + d ELSE @]

\* AnimationBuilder::wait
wait(b, d) == [b EXCEPT !.current_time = @ + d]

\* AnimationBuilder::add_keyframe
builder_add_keyframe(b, track_name, time, property, easing) ==
    LET b1 == builder_put(b, track_name, Keyframe(time, property, easing))
    IN  [b1 EXCEPT !.current_time = IF time > @ THEN time ELSE @]

\* the value build() starts a channel from
initial_property(p) ==
    CASE p.kind = "Position" -> Position(0, 0)
      [] p.kind = "Rotation" -> Rotation(0)
      [] p.kind = "Scale" -> Scale(1, 1)
      [] p.kind = "Color" -> Color(1, 1, 1, 1)
      [] p.kind = "Opacity" -> Opacity(1)
      [] p.kind = "Custom" -> Custom(p.name, 0)

\* AnimationBuilder::build
build(b) ==
    [b EXCEPT !.tracks =
        [name \in DOMAIN b.tracks |->
            LET keyframes == b.tracks[name]
            IN  IF keyframes # <<>> /\ keyframes[1].time > 0
                THEN <<Keyframe(0, initial_property(keyframes[1].property), "Linear")>>
                     \o keyframes
                ELSE keyframes]]

\* ---------------------------------------------------------------- presets
\* AnimationBuilder::new
NewBuilder == [tracks |-> <<>>, duration |-> 0, current_time |-> 0]

\* AnimationPresets::bounce
bounce(height, d) ==
    build(move_to(move_to(NewBuilder, 0, height, d \div 2, "EaseOutQuad"),
                  0, 0, d \div 2, "EaseInQuad"))

\* AnimationPresets::pulse
pulse(scale, d) ==
    build(scale_to(scale_to(NewBuilder, scale, d \div 2, "EaseInOut"),
                   1, d \div 2, "EaseInOut"))

\* for i in 0..steps { builder = builder.move_to(Vec2::new(x, y), ..) }
RECURSIVE shake_steps(_, _, _, _, _)
shake_steps(b, i, steps, intensity, step_duration) ==
    IF i >= steps THEN b
    ELSE LET x == IF i % 2 = 0 THEN R(intensity) ELSE R(-intensity)
             y == IF i % 3 = 0 THEN RMul(R(intensity), Frac(1, 2))
                  ELSE RMul(R(-intensity), Frac(1, 2))
             to == [Position(0, 0) EXCEPT !.val = <<x, y>>]
         IN  shake_steps(chain(b, "position", to, step_duration, "Linear"),
                         i + 1, steps, intensity, step_duration)

\* AnimationPresets::shake
shake(intensity, d) ==
    LET steps == 10
        step_duration == d \div steps
    IN  build(move_to(shake_steps(NewBuilder, 0, steps, intensity, step_duration),
                      0, 0, step_duration, "EaseOut"))

\* AnimationPresets::fade_in
fade_in(d) == build(fade_to(fade_to(NewBuilder, 0, 0, "Linear"), 1, d, "EaseIn"))

\* AnimationPresets::fade_out
fade_out(d) == build(fade_to(fade_to(NewBuilder, 1, 0, "Linear"), 0, d, "EaseOut"))

\* ------------------------------------------------------ the animated entity
\* Quat::from_rotation_z(angle), kept as the angle it turns about z
Quat_from_rotation_z(angle) == [angle |-> angle, axis |-> "z"]

\* Transform::default() (translation and scale are x, y, z) and a white
\* ColorMaterial
NewTarget ==
    [scale |-> <<R(1), R(1), R(1)>>, translation |-> <<R(0), R(0), R(0)>>,
     rotation |-> Quat_from_rotation_z(R(0)), color |-> <<R(1), R(1), R(1), R(1)>>]

\* an application that writes a Vec2 as a whole Vec3, z at its default
apply_to_transform_flat(p, tg) ==
    CASE p.kind = "Position" -> [tg EXCEPT !.translation = p.val \o <<R(0)>>]
      [] p.kind = "Rotation" -> [tg EXCEPT !.rotation = Quat_from_rotation_z(p.val[1])]
      [] p.kind = "Scale" -> [tg EXCEPT !.scale = p.val \o <<R(1)>>]
      [] OTHER -> tg

\* AnimatableProperty::apply_to_transform
apply_to_transform(p, tg) ==
    CASE p.kind = "Position" ->
            [tg EXCEPT !.translation[1] = p.val[1], !.translation[2] = p.val[2]]
      [] p.kind = "Rotation" -> [tg EXCEPT !.rotation = Quat_from_rotation_z(p.val[1])]
      [] p.kind = "Scale" -> [tg EXCEPT !.scale[1] = p.val[1], !.scale[2] = p.val[2]]
      [] OTHER -> tg

\* AnimatableProperty::apply_to_material
apply_to_material(p, tg) ==
    CASE p.kind = "Color" -> [tg EXCEPT !.color = p.val]
      [] p.kind = "Opacity" -> [tg EXCEPT !.color[4] = p.val[1]]
      [] OTHER -> tg

\* AnimationTimeline::get_current_values; no comparison with a NaN time
\* holds, so a NaN elapsed_time finds no keyframe on any track
get_current_values(trs, time) ==
    LET value(name) == IF IsNaN(time) THEN None ELSE get_value_at(trs[name], time)
    IN  [name \in {n \in DOMAIN trs : value(n).some} |-> value(name).property]

\* the loop of apply_animation_properties over the values, taken in the
\* order the map hands them out
RECURSIVE apply_values(_, _, _)
apply_values(tg, values, order) ==
    IF order = <<>> THEN tg
    ELSE LET property == values[order[1]]
         IN  apply_values(apply_to_material(property, apply_to_transform(property, tg)),
                          values, SubSeq(order, 2, Len(order)))

\* the orders a map with these keys can be walked in
Orders(keys) ==
    {order \in [1..Cardinality(keys) -> keys] :
        \A i, j \in 1..Cardinality(keys) : order[i] = order[j] => i = j}

NoFrame == [values |-> <<>>, applied |-> FALSE]

\* ------------------------------------------------------ the interactions
\* Option<Entity>::None; entities are numbered from 1
NoEntity == 0

\* the world the interaction systems read and write, as one value: the
\* components, the resources, the events written and not yet read, the
\* commands queued and not yet applied, and the next entity id
World ==
    [alive |-> alive, draggable |-> draggable, selectable |-> selectable,
     bounds |-> bounds, selected |-> selected, dragging |-> dragging,
     preview |-> preview, transforming |-> transforming,
     border_parent |-> border_parent,
     interaction_mode |-> interaction_mode,
     selected_entity |-> selected_entity, border_entity |-> border_entity,
     preview_entity |-> preview_entity,
     select_events |-> select_events, deselect_events |-> deselect_events,
     start_drag_events |-> start_drag_events,
     start_transform_events |-> start_transform_events,
     commands |-> commands, next_entity |-> next_entity]

\* the entity and everything below it: the borders add_child put under it
Descendants(w, e) == {e} \cup {b \in DOMAIN w.border_parent : w.border_parent[b] = e}

\* one queued command applied to the world; a command for an entity that
\* does not exist any more changes nothing
apply_command(w, c) ==
    LET op == c[1]
        e == c[2]
    IN  IF op = "spawn_border"
        THEN [w EXCEPT !.alive = @ \cup {e},
                       !.border_parent = [b \in DOMAIN @ \cup {e} |->
                                             IF b = e THEN c[3] ELSE @[b]]]
        ELSE IF op = "spawn_preview"
        THEN [w EXCEPT !.alive = @ \cup {e}, !.preview = @ \cup {e},
                       !.transforming = @ \cup {e}]
        ELSE IF e \notin w.alive THEN w
        ELSE CASE op = "insert_Selected" -> [w EXCEPT !.selected = @ \cup {e}]
               [] op = "remove_Selected" -> [w EXCEPT !.selected = @ \ {e}]
               [] op = "insert_Dragging" -> [w EXCEPT !.dragging = @ \cup {e}]
               [] op = "remove_Dragging" -> [w EXCEPT !.dragging = @ \ {e}]
               [] op = "remove_GeometryPreview" -> [w EXCEPT !.preview = @ \ {e}]
               [] op = "remove_Transforming" -> [w EXCEPT !.transforming = @ \ {e}]
               [] op = "insert_geometry" ->
                     [w EXCEPT !.draggable = @ \cup {e}, !.selectable = @ \cup {e},
                               !.bounds = @ \cup {e}]
               [] op = "despawn_recursive" ->
                     LET gone == Descendants(w, e)
                     IN  [w EXCEPT !.alive = @ \ gone,
                                   !.draggable = @ \ gone, !.selectable = @ \ gone,
                                   !.bounds = @ \ gone, !.selected = @ \ gone,
                                   !.dragging = @ \ gone, !.preview = @ \ gone,
                                   !.transforming = @ \ gone,
                                   !.border_parent = [b \in DOMAIN @ \ gone |-> @[b]]]

\* a sync point: the queued commands applied in the order they were queued
RECURSIVE apply_deferred(_)
apply_deferred(w) ==
    IF w.commands = <<>> THEN w
    ELSE apply_deferred([apply_command(w, Head(w.commands)) EXCEPT !.commands = Tail(@)])

Queue(w, c) == [w EXCEPT !.commands = Append(@, c)]

\* the entity of the query under the cursor (the entities do not overlap)
closest_entity(query) == IF cursor \in query THEN cursor ELSE NoEntity

\* a set of entities as the sequence a query iterates it in
RECURSIVE Iter(_)
Iter(set) ==
    IF set = {} THEN <<>>
    ELSE LET e == CHOOSE x \in set : \A y \in set : x <= y
         IN  <<e>> \o Iter(set \ {e})

\* fn not_in_transform_mode
not_in_transform_mode(w) == w.interaction_mode # "Transforming"

\* fn can_select
can_select(w) == w.interaction_mode = "None" \/ w.interaction_mode = "Selecting"

\* fn detect_drag_start
detect_drag_start(w) ==
    IF left # "pressed" THEN w
    ELSE IF w.interaction_mode # "None" THEN w
    ELSE LET entity == closest_entity((w.draggable \cap w.alive) \ w.dragging)
         IN  IF entity # NoEntity
             THEN [w EXCEPT !.start_drag_events = Append(@, entity),
                            !.interaction_mode = "Dragging"]
             ELSE w

\* fn apply_drag_start
RECURSIVE apply_drag_start(_)
apply_drag_start(w) ==
    IF w.start_drag_events = <<>> THEN w
    ELSE LET entity == Head(w.start_drag_events)
             w1 == [w EXCEPT !.start_drag_events = Tail(@)]
         IN  apply_drag_start(IF entity \in w.alive
                              THEN Queue(w1, <<"insert_Dragging", entity, NoEntity>>)
                              ELSE w1)

\* fn update_dragging: moves the entities that are dragged, nothing else
update_dragging(w) == w

\* for entity in dragging_query.iter() { commands.entity(entity).remove::<Dragging>() }
RECURSIVE remove_dragging(_, _)
remove_dragging(w, entities) ==
    IF entities = <<>> THEN w
    ELSE remove_dragging(Queue(w, <<"remove_Dragging", Head(entities), NoEntity>>),
                         Tail(entities))

\* fn detect_drag_stop
detect_drag_stop(w) ==
    IF left # "released" THEN w
    ELSE IF w.interaction_mode # "Dragging" THEN w
    ELSE [remove_dragging(w, Iter(w.dragging)) EXCEPT !.interaction_mode = "None"]

\* fn detect_transform_start; KeyShape is any of the keys T, G, R, H, Y
detect_transform_start(w) ==
    IF w.interaction_mode # "None" THEN w
    ELSE IF key = "KeyShape"
    THEN [w EXCEPT !.start_transform_events = Append(@, key)]
    ELSE w

\* fn begin_transform
RECURSIVE begin_transform(_)
begin_transform(w) ==
    IF w.start_transform_events = <<>> THEN w
    ELSE LET entity == w.next_entity
             w1 == [w EXCEPT !.start_transform_events = Tail(@),
                             !.interaction_mode = "Transforming",
                             !.next_entity = @ + 1,
                             !.preview_entity = entity]
         IN  begin_transform(Queue(w1, <<"spawn_preview", entity, NoEntity>>))

\* fn update_transform_preview: scales and turns the preview, nothing else
update_transform_preview(w) == w

\* the loop of confirm_transform over the preview entities
RECURSIVE confirm_each(_, _)
confirm_each(w, entities) ==
    IF entities = <<>> THEN w
    ELSE LET entity == Head(entities)
             w1 == Queue(w, <<"remove_GeometryPreview", entity, NoEntity>>)
             w2 == Queue(w1, <<"remove_Transforming", entity, NoEntity>>)
             w3 == Queue(w2, <<"insert_geometry", entity, NoEntity>>)
         IN  confirm_each(w3, Tail(entities))

\* confirm_transform that leaves the preview marker on the entity
confirm_transform_keeps_preview(w) ==
    IF left # "pressed" THEN w
    ELSE IF w.interaction_mode # "Transforming" THEN w
    ELSE [w EXCEPT !.preview_entity = NoEntity, !.interaction_mode = "None"]

\* fn confirm_transform
confirm_transform(w) ==
    IF left # "pressed" THEN w
    ELSE IF w.interaction_mode # "Transforming" THEN w
    ELSE [confirm_each(w, Iter(w.preview \cap w.transforming))
             EXCEPT !.preview_entity = NoEntity, !.interaction_mode = "None"]

\* the loop of cancel_transform over the preview entities
RECURSIVE cancel_each(_, _)
cancel_each(w, entities) ==
    IF entities = <<>> THEN w
    ELSE cancel_each(Queue(w, <<"despawn_recursive", Head(entities), NoEntity>>),
                     Tail(entities))

\* fn cancel_transform
cancel_transform(w) ==
    IF key # "Escape" THEN w
    ELSE IF w.interaction_mode # "Transforming" THEN w
    ELSE [cancel_each(w, Iter(w.preview))
             EXCEPT !.preview_entity = NoEntity, !.interaction_mode = "None"]

\* fn detect_selection_click
detect_selection_click(w) ==
    IF left # "pressed" THEN w
    ELSE IF w.interaction_mode = "Dragging" \/ w.interaction_mode = "Transforming" THEN w
    ELSE LET entity == closest_entity((w.selectable \cap w.alive) \ w.selected)
             current == w.selected_entity
         IN  IF entity # NoEntity
             THEN [w EXCEPT !.deselect_events =
                                IF current # NoEntity /\ current # entity
                                THEN Append(@, current) ELSE @,
                            !.select_events = Append(@, entity),
                            !.interaction_mode = "Selecting"]
             ELSE IF current # NoEntity
             THEN [w EXCEPT !.deselect_events = Append(@, current),
                            !.interaction_mode = "None"]
             ELSE w

\* fn apply_selection
RECURSIVE apply_selection(_)
apply_selection(w) ==
    IF w.select_events = <<>> THEN w
    ELSE LET entity == Head(w.select_events)
             w1 == Queue([w EXCEPT !.select_events = Tail(@)],
                         <<"insert_Selected", entity, NoEntity>>)
             border == w.next_entity
         IN  apply_selection(
                 IF entity \in w.alive
                 THEN [Queue(w1, <<"spawn_border", border, entity>>)
                          EXCEPT !.next_entity = @ + 1,
                                 !.selected_entity = entity,
                                 !.border_entity = border]
                 ELSE w1)

\* fn apply_deselection
RECURSIVE apply_deselection(_)
apply_deselection(w) ==
    IF w.deselect_events = <<>> THEN w
    ELSE LET entity == Head(w.deselect_events)
             w1 == Queue([w EXCEPT !.deselect_events = Tail(@)],
                         <<"remove_Selected", entity, NoEntity>>)
             w2 == IF w.border_entity # NoEntity /\ w.border_entity \in DOMAIN w.border_parent
                   THEN Queue(w1, <<"despawn_recursive", w.border_entity, NoEntity>>)
                   ELSE w1
         IN  apply_deselection([w2 EXCEPT !.selected_entity = NoEntity,
                                          !.border_entity = NoEntity])

\* fn update_selection_border: keeps the border above its parent, nothing else
update_selection_border(w) == w

\* ----------------------------------------------------------------- actions
Assign(tl) ==
    /\ state' = tl.state
    /\ mode' = tl.mode
    /\ duration' = tl.duration
    /\ elapsed_time' = tl.elapsed_time
    /\ speed' = tl.speed
    /\ repeat_count' = tl.repeat_count
    /\ reverse' = tl.reverse
    /\ delay' = tl.delay
    /\ delay_elapsed' = tl.delay_elapsed
    /\ on_start' = tl.on_start
    /\ on_complete' = tl.on_complete
    /\ fired' = tl.calls

\* tracks.values().map(|track| track.duration()).max(), for keyframe times
\* that are not negative: the largest keyframe time added so far
add_keyframe(tl, time) ==
    [tl EXCEPT !.duration = IF time > @ THEN time ELSE @]

register(tl, cb) == [tl EXCEPT ![cb] = TRUE]

\* bookkeeping of the play-through the histories follow
Count(s, x) == Cardinality({i \in 1..Len(s) : s[i] = x})

\* fresh: the operation starts a play-through (play() leaving Idle)
Track(tl, d, fresh) ==
    /\ completes' = IF tl.state = "Idle" \/ fresh THEN 0
                    ELSE completes + Count(tl.calls, "on_complete")
    /\ played' = IF tl.state = "Idle" \/ fresh \/ tl.mode # Once THEN 0
                 ELSE IF state # "Playing" THEN played
                 ELSE IF played + d <= MaxPlayed THEN played + d
                 ELSE MaxPlayed + 1
    /\ before' = state
    /\ replayed' = IF fresh THEN state = "Finished"
                   ELSE IF tl.state = "Idle" THEN FALSE
                   ELSE replayed

Step(op, tl, d, fresh) ==
    /\ Assign(tl)
    /\ last' = [op |-> op, arg |-> d]
    /\ Track(tl, d, fresh)
    /\ updates' = IF tl.state = "Idle" \/ fresh \/ tl.mode.kind # "Repeat" THEN 0
                  ELSE IF op = "update" /\ state = "Playing" /\ updates < MaxRepeatCount
                  THEN updates + 1
                  ELSE updates

Do(op, tl, d, fresh) ==
    /\ Step(op, tl, d, fresh)
    /\ UNCHANGED <<trackvars, buildvars, framevars, uivars>>

Play ==
    /\ TRUE
    /\ Do("play", play(Self), 0, state = "Idle")

Pause ==
    /\ TRUE
    /\ Do("pause", pause(Self), 0, FALSE)

Stop ==
    /\ TRUE
    /\ Do("stop", stop(Self), 0, FALSE)

Restart ==
    /\ TRUE
    /\ Do("restart", restart(Self), 0, TRUE)

Update(delta) ==
    /\ repeat_count < MaxRepeatCount
    /\ Do("update", update(Self, delta), delta, FALSE)

\* The configuring calls below have no guard in the source; they are taken
\* while the timeline is Idle, the phase in which the builder and its callers
\* make them.
SetMode(m) ==
    /\ state = "Idle"
    /\ Do("set_mode", set_mode(Self, m), 0, FALSE)

SetSpeed(s) ==
    /\ state = "Idle"
    /\ Do("set_speed", set_speed(Self, s), s, FALSE)

SetDelay(d) ==
    /\ state = "Idle"
    /\ Do("set_delay", set_delay(Self, d), d, FALSE)

AddKeyframe(time) ==
    /\ state = "Idle"
    /\ Do("add_keyframe", add_keyframe(Self, time), 0, FALSE)

OnStart ==
    /\ state = "Idle"
    /\ Do("on_start", register(Self, "on_start"), 0, FALSE)

OnComplete ==
    /\ state = "Idle"
    /\ Do("on_complete", register(Self, "on_complete"), 0, FALSE)

Init ==
    /\ state = "Idle"
    /\ mode = Once
    /\ duration = 0
    /\ elapsed_time = 0
    /\ speed = 1
    /\ repeat_count = 0
    /\ reverse = FALSE
    /\ delay = 0
    /\ delay_elapsed = 0
    /\ on_start = FALSE
    /\ on_complete = FALSE
    /\ fired = <<>>
    /\ last = [op |-> "new", arg |-> 0]
    /\ completes = 0
    /\ played = 0
    /\ before = "Idle"
    /\ replayed = FALSE
    /\ updates = 0
    /\ track = <<>>
    /\ sampled = NoSample
    /\ divided = <<>>
    /\ eased = NoEased
    /\ tracks = <<>>
    /\ current_time = 0
    /\ built = FALSE
    /\ chain_sum = 0
    /\ target = NewTarget
    /\ auto_apply = TRUE
    /\ frame = NoFrame
    /\ alive = 1..InitialEntities
    /\ draggable = 1..InitialEntities
    /\ selectable = 1..InitialEntities
    /\ bounds = 1..InitialEntities
    /\ selected = {}
    /\ dragging = {}
    /\ preview = {}
    /\ transforming = {}
    /\ border_parent = <<>>
    /\ interaction_mode = "None"
    /\ selected_entity = NoEntity
    /\ border_entity = NoEntity
    /\ preview_entity = NoEntity
    /\ select_events = <<>>
    /\ deselect_events = <<>>
    /\ start_drag_events = <<>>
    /\ start_transform_events = <<>>
    /\ commands = <<>>
    /\ next_entity = InitialEntities + 1
    /\ phase = "boundary"
    /\ left = "none"
    /\ key = "none"
    /\ cursor = NoEntity
    /\ drag_pc = 5
    /\ transform_pc = 6
    /\ select_pc = 5
    /\ synced = 2
    /\ ran = {}
    /\ mode0 = "None"
    /\ preview0 = {}

Next ==
    \/ Play
    \/ Pause
    \/ Stop
    \/ Restart
    \/ \E delta \in Deltas : Update(delta)
    \/ \E m \in AnimationMode : SetMode(m)
    \/ \E s \in SpeedArgs : SetSpeed(s)
    \/ \E d \in DelayArgs : SetDelay(d)
    \/ \E time \in KeyTimes : AddKeyframe(time)
    \/ OnStart
    \/ OnComplete

Spec == Init /\ [][Next]_vars

\* ------------------------------------------ a timeline configured in use
\* add_keyframe and set_mode taken in whatever state the timeline is in
AddKeyframeLive(time) ==
    /\ TRUE
    /\ Do("add_keyframe", add_keyframe(Self, time), 0, FALSE)

SetModeLive(m) ==
    /\ TRUE
    /\ Do("set_mode", set_mode(Self, m), 0, FALSE)

NextLive ==
    \/ Play
    \/ Pause
    \/ Stop
    \/ Restart
    \/ \E delta \in Deltas : Update(delta)
    \/ \E time \in KeyTimes : AddKeyframeLive(time)
    \/ \E m \in AnimationMode : SetModeLive(m)

SpecLive == Init /\ [][NextLive]_vars

\* ------------------------------------------------- a standalone track
TrackProperties == {Scale(1, 1), Scale(2, 2), Rotation(1)}
TrackKeyframes ==
    {Keyframe(t, p, e) : t \in TrackTimes, p \in TrackProperties, e \in Easing}

TrackAddKeyframe(kf) ==
    /\ Len(track) < MaxTrackLen
    /\ track' = track_add_keyframe(track, kf)
    /\ sampled' = NoSample
    /\ divided' = <<>>
    /\ UNCHANGED <<tlvars, histvars, buildvars, framevars, eased, uivars>>

GetValueAt(time) ==
    /\ sampled' = [time |-> time, result |-> get_value_at(track, time),
                   taken |-> TRUE]
    /\ divided' = divisions(track, time)
    /\ UNCHANGED <<tlvars, histvars, track, buildvars, framevars, eased, uivars>>

NextTrack ==
    \/ \E kf \in TrackKeyframes : TrackAddKeyframe(kf)
    \/ \E time \in SampleTimes : GetValueAt(time)

SpecTrack == Init /\ [][NextTrack]_vars

\* ------------------------------------------- a track of plain keyframes
\* keyframes that differ in their time only, up to MaxSegmentKeyframes of
\* them, so that a duplicated time can lie strictly inside the track
TrackAddPlain(time) ==
    /\ Len(track) < MaxSegmentKeyframes
    /\ track' = track_add_keyframe(track, Keyframe(time, Scale(1, 1), "Linear"))
    /\ sampled' = NoSample
    /\ divided' = <<>>
    /\ UNCHANGED <<tlvars, histvars, buildvars, framevars, eased, uivars>>

NextSegment ==
    \/ \E time \in TrackTimes : TrackAddPlain(time)
    \/ \E time \in SampleTimes : GetValueAt(time)

SpecSegment == Init /\ [][NextSegment]_vars

\* ------------------------------------------------------ the easing curves
\* arguments of Easing::apply, in halves: below 0, the ends of [0, 1], above 1
EasingArgs == {-4, -1, 0, 2, 3, 6}

Apply(easing, t) ==
    /\ eased' = [t |-> t, easing |-> easing, taken |-> TRUE,
                 value |-> apply(easing, t)]
    /\ UNCHANGED <<tlvars, histvars, track, sampled, divided, buildvars,
                   framevars, uivars>>

NextEasing ==
    \E easing \in Curves, a \in EasingArgs : Apply(easing, Frac(a, 2))

SpecEasing == Init /\ [][NextEasing]_vars

\* --------------------------------------------------------------- presets
\* duration arguments of the presets, in ticks (0s, 5s, .. 25s: the halves
\* and tenths the presets take of them are whole ticks), and their height,
\* scale and intensity arguments
PresetDurations == {0, 10, 20, 30, 40, 50}
PresetArgs == {1, 2, 3, 4, 5}

\* a preset called: its timeline is a new one, in the mode the preset set
Preset(name, b, m, d) ==
    /\ tracks' = b.tracks
    /\ duration' = b.duration
    /\ current_time' = b.current_time
    /\ built' = TRUE
    /\ mode' = m
    /\ state' = "Idle"
    /\ elapsed_time' = 0
    /\ speed' = 1
    /\ repeat_count' = 0
    /\ reverse' = FALSE
    /\ delay' = 0
    /\ delay_elapsed' = 0
    /\ on_start' = FALSE
    /\ on_complete' = FALSE
    /\ last' = [op |-> name, arg |-> d]
    /\ UNCHANGED <<fired, completes, played, before, replayed, updates, chain_sum>>
    /\ UNCHANGED <<trackvars, framevars, uivars>>

Bounce(height, d) ==
    /\ TRUE
    /\ Preset("bounce", bounce(height, d), Loop, d)

Pulse(scale, d) ==
    /\ TRUE
    /\ Preset("pulse", pulse(scale, d), Loop, d)

Shake(intensity, d) ==
    /\ TRUE
    /\ Preset("shake", shake(intensity, d), Once, d)

FadeIn(d) ==
    /\ TRUE
    /\ Preset("fade_in", fade_in(d), Once, d)

FadeOut(d) ==
    /\ TRUE
    /\ Preset("fade_out", fade_out(d), Once, d)

NextPresets ==
    \/ \E a \in PresetArgs, d \in PresetDurations : Bounce(a, d)
    \/ \E a \in PresetArgs, d \in PresetDurations : Pulse(a, d)
    \/ \E a \in PresetArgs, d \in PresetDurations : Shake(a, d)
    \/ \E d \in PresetDurations : FadeIn(d)
    \/ \E d \in PresetDurations : FadeOut(d)

SpecPresets == Init /\ [][NextPresets]_vars

\* ------------------------------------------------------- a builder chain
NumKeyframes(trs) ==
    LET RECURSIVE Sum(_)
        Sum(names) == IF names = {} THEN 0
                      ELSE LET n == CHOOSE x \in names : TRUE
                           IN  Len(trs[n]) + Sum(names \ {n})
    IN  Sum(DOMAIN trs)

\* a builder call of duration d (-1: a call that takes none): the builder is
\* not built yet and the chain stays in bounds
Call(b, d) ==
    /\ ~built
    /\ NumKeyframes(b.tracks) <= MaxKeyframes
    /\ b.current_time <= MaxCursor
    /\ tracks' = b.tracks
    /\ duration' = b.duration
    /\ current_time' = b.current_time
    /\ built' = FALSE
    /\ chain_sum' = IF d < 0 \/ chain_sum < 0 THEN -1 ELSE chain_sum + d
    /\ UNCHANGED <<state, mode, elapsed_time, speed, repeat_count, reverse,
                   delay, delay_elapsed, on_start, on_complete>>
    /\ UNCHANGED <<histvars, trackvars, framevars, uivars>>

MoveTo(d, easing) ==
    /\ TRUE
    /\ Call(move_to(Builder, 2, 0, d, easing), d)

RotateTo(d) ==
    /\ TRUE
    /\ Call(rotate_to(Builder, 3, d, "Linear"), d)

ScaleTo(d) ==
    /\ TRUE
    /\ Call(scale_to(Builder, 2, d, "Linear"), d)

ColorTo(d) ==
    /\ TRUE
    /\ Call(color_to(Builder, 1, 0, 0, 1, d, "Linear"), d)

FadeTo(opacity, d) ==
    /\ TRUE
    /\ Call(fade_to(Builder, opacity, d, "EaseIn"), d)

MoveBy(d) ==
    /\ TRUE
    /\ Call(move_by(Builder, ByDelta, ByDelta, d, "Linear"), d)

RotateBy(d) ==
    /\ TRUE
    /\ Call(rotate_by(Builder, ByDelta, d, "Linear"), d)

Wait(d) ==
    /\ TRUE
    /\ Call(wait(Builder, d), d)

BuilderAddKeyframe(track_name, time) ==
    /\ TRUE
    /\ Call(builder_add_keyframe(Builder, track_name, time, Position(1, 1), "Linear"), -1)

Build ==
    /\ ~built
    /\ tracks' = build(Builder).tracks
    /\ duration' = build(Builder).duration
    /\ current_time' = build(Builder).current_time
    /\ built' = TRUE
    /\ UNCHANGED chain_sum
    /\ UNCHANGED <<state, mode, elapsed_time, speed, repeat_count, reverse,
                   delay, delay_elapsed, on_start, on_complete>>
    /\ UNCHANGED <<histvars, trackvars, framevars, uivars>>

\* opacities handed to fade_to: one inside [0, 1] and one above it
FadeArgs == {0, 2}
\* channels and times handed to the builder's add_keyframe
AddNames == {"position", "glow"}
AddTimes == {-1, 0, 3}

NextBuild ==
    \/ \E d \in BuilderDurations, e \in Easing : MoveTo(d, e)
    \/ \E d \in BuilderDurations : RotateTo(d)
    \/ \E d \in BuilderDurations : ScaleTo(d)
    \/ \E d \in BuilderDurations : ColorTo(d)
    \/ \E o \in FadeArgs, d \in BuilderDurations : FadeTo(o, d)
    \/ \E d \in BuilderDurations : MoveBy(d)
    \/ \E d \in BuilderDurations : RotateBy(d)
    \/ \E d \in BuilderDurations : Wait(d)
    \/ \E n \in AddNames, t \in AddTimes : BuilderAddKeyframe(n, t)
    \/ Build

SpecBuild == Init /\ [][NextBuild]_vars

\* ------------------------------------------- frames of an animated entity
\* the channels of the timeline and the properties their keyframes hold
FrameNames == {"position", "scale", "color", "opacity", "glow"}
FrameValues(name) ==
    CASE name = "position" -> {Position(2, 4), Rotation(1)}
      [] name = "scale" -> {Scale(2, 3)}
      [] name = "color" -> {Color(1, 0, 0, 1)}
      [] name = "opacity" -> {Opacity(0), Opacity(2)}
      [] name = "glow" -> {Custom("glow", 1), Custom("shine", 3)}
FrameTimes == {0, 2, 4}
FrameProperties == UNION {FrameValues(name) : name \in FrameNames}

\* the Transform the entity is spawned with: the default one, or one with a
\* depth and a z scale of its own
SpawnTransforms ==
    {NewTarget, [NewTarget EXCEPT !.translation[3] = R(5), !.scale[3] = R(3)]}

\* commands.spawn((transform, ..)), before the timeline is put together
Spawn(tg) ==
    /\ state = "Idle"
    /\ tracks = <<>>
    /\ target' = tg
    /\ UNCHANGED <<tlvars, histvars, trackvars, buildvars, auto_apply, frame, uivars>>

\* timeline.add_keyframe(track_name, keyframe) before the entity is spawned
FrameAddKeyframe(track_name, kf) ==
    /\ state = "Idle"
    /\ NumKeyframes(tracks) < MaxFrameKeyframes
    /\ LET trs == timeline_add_keyframe(tracks, track_name, kf)
       IN  /\ tracks' = trs
           /\ Step("add_keyframe", [Self EXCEPT !.duration = update_duration(trs)], 0, FALSE)
    /\ UNCHANGED <<current_time, built, chain_sum>>
    /\ UNCHANGED <<trackvars, framevars, uivars>>

\* AnimationComponent::with_auto_apply
WithAutoApply(b) ==
    /\ state = "Idle"
    /\ auto_apply' = b
    /\ UNCHANGED <<tlvars, histvars, trackvars, buildvars, target, frame, uivars>>

\* handle_animation_events on AnimationEvent::Play
EventPlay ==
    /\ Step("play", play(Self), 0, state = "Idle")
    /\ UNCHANGED <<trackvars, buildvars, framevars, uivars>>

\* one frame: update_animations, then apply_animation_properties
Frame(delta) ==
    LET tl == update(Self, delta)
        values == get_current_values(tracks, tl.elapsed_time)
    IN  /\ state = "Playing"
        /\ Step("update", tl, delta, FALSE)
        /\ IF ~auto_apply \/ tl.state # "Playing"
           THEN /\ target' = target
                /\ frame' = NoFrame
           ELSE /\ \E order \in Orders(DOMAIN values) :
                        target' = apply_values(target, values, order)
                /\ frame' = [values |-> values, applied |-> TRUE]
        /\ UNCHANGED <<trackvars, buildvars, auto_apply, uivars>>

NextFrame ==
    \/ \E tg \in SpawnTransforms : Spawn(tg)
    \/ \E n \in FrameNames, t \in FrameTimes : \E p \in FrameValues(n) :
            FrameAddKeyframe(n, Keyframe(t, p, "Linear"))
    \/ \E b \in BOOLEAN : WithAutoApply(b)
    \/ EventPlay
    \/ \E delta \in FrameDeltas : Frame(delta)

SpecFrame == Init /\ [][NextFrame]_vars

\* --------------------------------------------- frames of the interactions
\* The Update schedule of a frame runs three chains of systems: drag,
\* transform and select.  Inside a chain the systems run in order; between
\* the chains there is no order.  The commands a system queues are applied
\* at the next sync point: one after the second system of every chain, one
\* after confirm_transform and apply_deselection, one at the end of the
\* schedule.  The run condition of a chain is evaluated once, when its first
\* system is about to run.
AssignWorld(w) ==
    /\ alive' = w.alive
    /\ draggable' = w.draggable
    /\ selectable' = w.selectable
    /\ bounds' = w.bounds
    /\ selected' = w.selected
    /\ dragging' = w.dragging
    /\ preview' = w.preview
    /\ transforming' = w.transforming
    /\ border_parent' = w.border_parent
    /\ interaction_mode' = w.interaction_mode
    /\ selected_entity' = w.selected_entity
    /\ border_entity' = w.border_entity
    /\ preview_entity' = w.preview_entity
    /\ select_events' = w.select_events
    /\ deselect_events' = w.deselect_events
    /\ start_drag_events' = w.start_drag_events
    /\ start_transform_events' = w.start_transform_events
    /\ commands' = w.commands
    /\ next_entity' = w.next_entity

Others == <<tlvars, histvars, trackvars, buildvars, framevars>>

\* entities spawned since the start
Spawned == next_entity - 1 - InitialEntities

\* the input of a frame: the left button just pressed or just released, a
\* key just pressed, and the entity under the cursor when the button is
\* pressed
BeginFrame(l, k, c) ==
    /\ phase = "boundary"
    /\ c # NoEntity => l = "pressed" /\ c \in alive /\ c \in draggable \cup selectable
    /\ Spawned + (IF l = "pressed" THEN 1 ELSE 0) + (IF k = "KeyShape" THEN 1 ELSE 0)
           <= MaxSpawned
    /\ phase' = "running"
    /\ left' = l
    /\ key' = k
    /\ cursor' = c
    /\ drag_pc' = 1
    /\ transform_pc' = 1
    /\ select_pc' = 1
    /\ synced' = 0
    /\ ran' = {}
    /\ mode0' = interaction_mode
    /\ preview0' = preview
    /\ UNCHANGED <<ecsvars, resvars, eventvars, commands, next_entity>>
    /\ UNCHANGED Others

\* a system of the drag chain runs
DragSystem(at, w, sync) ==
    /\ phase = "running"
    /\ drag_pc = at
    /\ synced >= sync
    /\ IF at = 1 /\ ~not_in_transform_mode(World)
       THEN /\ drag_pc' = 5
            /\ ran' = ran
            /\ AssignWorld(World)
       ELSE /\ drag_pc' = at + 1
            /\ ran' = ran \cup {"drag"}
            /\ AssignWorld(w)
    /\ UNCHANGED <<phase, left, key, cursor, transform_pc, select_pc, synced,
                   mode0, preview0>>
    /\ UNCHANGED Others

DetectDragStart ==
    /\ TRUE
    /\ DragSystem(1, detect_drag_start(World), 0)

ApplyDragStart ==
    /\ TRUE
    /\ DragSystem(2, apply_drag_start(World), 0)

UpdateDragging ==
    /\ TRUE
    /\ DragSystem(3, update_dragging(World), 1)

DetectDragStop ==
    /\ TRUE
    /\ DragSystem(4, detect_drag_stop(World), 1)

\* a system of the transform chain runs (the chain has no run condition)
TransformSystem(at, w, sync) ==
    /\ phase = "running"
    /\ transform_pc = at
    /\ synced >= sync
    /\ transform_pc' = at + 1
    /\ ran' = ran \cup {"transform"}
    /\ AssignWorld(w)
    /\ UNCHANGED <<phase, left, key, cursor, drag_pc, select_pc, synced,
                   mode0, preview0>>
    /\ UNCHANGED Others

DetectTransformStart ==
    /\ TRUE
    /\ TransformSystem(1, detect_transform_start(World), 0)

BeginTransform ==
    /\ TRUE
    /\ TransformSystem(2, begin_transform(World), 0)

UpdateTransformPreview ==
    /\ TRUE
    /\ TransformSystem(3, update_transform_preview(World), 1)

ConfirmTransform ==
    /\ TRUE
    /\ TransformSystem(4, confirm_transform(World), 1)

CancelTransform ==
    /\ TRUE
    /\ TransformSystem(5, cancel_transform(World), 2)

\* a system of the select chain runs
SelectSystem(at, w, sync) ==
    /\ phase = "running"
    /\ select_pc = at
    /\ synced >= sync
    /\ IF at = 1 /\ ~can_select(World)
       THEN /\ select_pc' = 5
            /\ ran' = ran
            /\ AssignWorld(World)
       ELSE /\ select_pc' = at + 1
            /\ ran' = ran \cup {"select"}
            /\ AssignWorld(w)
    /\ UNCHANGED <<phase, left, key, cursor, drag_pc, transform_pc, synced,
                   mode0, preview0>>
    /\ UNCHANGED Others

DetectSelectionClick ==
    /\ TRUE
    /\ SelectSystem(1, detect_selection_click(World), 0)

ApplySelection ==
    /\ TRUE
    /\ SelectSystem(2, apply_selection(World), 0)

ApplyDeselection ==
    /\ TRUE
    /\ SelectSystem(3, apply_deselection(World), 1)

UpdateSelectionBorder ==
    /\ TRUE
    /\ SelectSystem(4, update_selection_border(World), 2)

\* a sync point of the schedule: every system before it has run
SyncPoint ==
    /\ phase = "running"
    /\ \/ synced = 0 /\ drag_pc >= 3 /\ transform_pc >= 3 /\ select_pc >= 3
       \/ synced = 1 /\ transform_pc >= 5 /\ select_pc >= 4
    /\ synced' = synced + 1
    /\ AssignWorld(apply_deferred(World))
    /\ UNCHANGED <<phase, left, key, cursor, drag_pc, transform_pc, select_pc,
                   ran, mode0, preview0>>
    /\ UNCHANGED Others

\* the end of the schedule: the commands still queued are applied
EndFrame ==
    /\ phase = "running"
    /\ synced = 2
    /\ drag_pc = 5
    /\ transform_pc = 6
    /\ select_pc = 5
    /\ phase' = "boundary"
    /\ AssignWorld(apply_deferred(World))
    /\ UNCHANGED <<left, key, cursor, drag_pc, transform_pc, select_pc, synced,
                   ran, mode0, preview0>>
    /\ UNCHANGED Others

Buttons == {"none", "pressed", "released"}
Keys == {"none", "KeyShape", "Escape"}

NextInteract ==
    \/ \E l \in Buttons, k \in Keys, c \in 0..(InitialEntities + MaxSpawned) :
            BeginFrame(l, k, c)
    \/ DetectDragStart
    \/ ApplyDragStart
    \/ UpdateDragging
    \/ DetectDragStop
    \/ DetectTransformStart
    \/ BeginTransform
    \/ UpdateTransformPreview
    \/ ConfirmTransform
    \/ CancelTransform
    \/ DetectSelectionClick
    \/ ApplySelection
    \/ ApplyDeselection
    \/ UpdateSelectionBorder
    \/ SyncPoint
    \/ EndFrame

SpecInteract == Init /\ [][NextInteract]_vars

TypeOK ==
    /\ state \in AnimationState
    /\ mode \in AnimationMode
    /\ duration \in Int
    /\ IsNaN(elapsed_time) \/ elapsed_time >= 0
    /\ speed \in {FMax0(s) : s \in SpeedArgs}
    /\ repeat_count \in 0..MaxRepeatCount
    /\ reverse \in BOOLEAN
    /\ delay \in {FMax0(d) : d \in DelayArgs}
    /\ delay_elapsed >= 0
    /\ completes \in 0..1
    /\ current_time \in Nat
    /\ built \in BOOLEAN
    /\ chain_sum \in Nat \cup {-1}
    /\ auto_apply \in BOOLEAN
    /\ frame.applied \in BOOLEAN
    /\ updates \in 0..MaxRepeatCount
    /\ alive \subseteq 1..(InitialEntities + MaxSpawned)
    /\ selected \cup dragging \cup preview \cup transforming \subseteq alive
    /\ DOMAIN border_parent \subseteq alive
    /\ interaction_mode \in {"None", "Dragging", "Transforming", "Selecting"}
    /\ selected_entity \in 0..(InitialEntities + MaxSpawned)
    /\ border_entity \in 0..(InitialEntities + MaxSpawned)
    /\ next_entity \in (InitialEntities + 1)..(InitialEntities + MaxSpawned + 1)
    /\ phase \in {"boundary", "running"}
    /\ Len(divided) <= 1
    /\ eased.easing \in Curves
    /\ eased.taken \in BOOLEAN
    /\ DOMAIN frame.values \subseteq DOMAIN tracks
    /\ \A name \in DOMAIN tracks : tracks[name] # <<>>

\* ------------------------------------------------------------------ claims
config == <<mode, duration, speed, delay, on_start, on_complete>>

\* animation time the update() of this step hands to update_animation,
\* -1 when the update ends inside the delay
Applied ==
    IF delay_elapsed >= delay THEN last'.arg
    ELSE IF delay_elapsed + last'.arg < delay THEN -1
    ELSE delay_elapsed + last'.arg - delay

\* elapsed_time of this step's update() after the advance, before the mode's
\* boundary handling
Target ==
    IF reverse THEN elapsed_time - Applied * speed
    ELSE elapsed_time + Applied * speed

Crossing ==
    /\ last'.op = "update"
    /\ state = "Playing"
    /\ ~IsNaN(elapsed_time)
    /\ Applied >= 0

\* C1: play() from Idle sets state to Playing, elapsed_time, delay_elapsed and
\* repeat_count to 0, reverse to false and invokes on_start once; from Paused
\* it only sets state to Playing and invokes nothing; from Playing or Finished
\* it changes no field and invokes nothing.
C1_Play ==
    [][last'.op = "play" =>
        /\ state = "Idle" =>
            /\ state' = "Playing"
            /\ elapsed_time' = 0 /\ delay_elapsed' = 0
            /\ repeat_count' = 0 /\ reverse' = FALSE
            /\ fired' = IF on_start THEN <<"on_start">> ELSE <<>>
            /\ UNCHANGED config
        /\ state = "Paused" =>
            /\ state' = "Playing"
            /\ UNCHANGED <<elapsed_time, delay_elapsed, repeat_count, reverse>>
            /\ UNCHANGED config
            /\ fired' = <<>>
        /\ state \in {"Playing", "Finished"} =>
            /\ UNCHANGED tlvars
            /\ fired' = <<>>]_vars

\* play() has resumed a paused timeline with an on_start callback part-way
\* through its animation and its delay
C1_Witness ==
    /\ last.op = "play"
    /\ state = "Playing"
    /\ on_start
    /\ fired = <<>>
    /\ elapsed_time > 0
    /\ delay_elapsed > 0

Callback(cb) == IF cb = "on_start" THEN (IF on_start THEN <<cb>> ELSE <<>>)
                ELSE (IF on_complete THEN <<cb>> ELSE <<>>)

Min(a, b) == IF a < b THEN a ELSE b

\* C2: in Once mode with duration > 0 the update() that brings elapsed_time to
\* or past duration sets elapsed_time to duration, state to Finished and
\* invokes on_complete; further update() calls change nothing and invoke
\* nothing, so on_complete is invoked once in a play-through.
C2_OnceFinish ==
    /\ [](mode = Once /\ duration > 0 =>
            /\ completes <= 1
            /\ state = "Finished" =>
                (elapsed_time = duration /\ completes = Len(Callback("on_complete"))))
    /\ [][(mode = Once /\ duration > 0 /\ last'.op = "update") =>
            /\ (Crossing /\ Target >= duration) =>
                /\ elapsed_time' = duration
                /\ state' = "Finished"
                /\ fired' = Callback("on_complete")
            /\ (Crossing /\ Target < duration) =>
                /\ state' = "Playing"
                /\ fired' = <<>>
            /\ state = "Finished" =>
                /\ UNCHANGED tlvars
                /\ fired' = <<>>]_vars

\* duration 2.0: update(1.0) twice has finished the timeline and invoked
\* on_complete once, and a later update(1.0) has left it so
C2_Witness ==
    /\ mode = Once
    /\ duration = 4
    /\ speed = 1
    /\ delay = 0
    /\ on_complete
    /\ last = [op |-> "update", arg |-> 2]
    /\ played = 4
    /\ fired = <<>>
    /\ state = "Finished"
    /\ elapsed_time = 4
    /\ completes = 1

\* C4: after every update() call, in every mode and for every delta, speed and
\* delay that are not negative, 0 <= elapsed_time <= duration.
C4_ElapsedInRange ==
    last.op = "update" =>
        (~IsNaN(elapsed_time) /\ 0 <= elapsed_time /\ elapsed_time <= duration)

\* C5: for a timeline of duration 0, update() in every mode leaves
\* elapsed_time at 0 (no remainder by zero is taken).
C5_ZeroDuration ==
    (duration = 0 /\ last.op = "update") => elapsed_time = 0

\* C6: in Loop and PingPong modes the timeline is never Finished and
\* on_complete is never invoked, whatever update() calls are made.
C6_NeverFinished ==
    mode \in {Loop, PingPong} => (state # "Finished" /\ completes = 0)

\* a PingPong timeline has gone forth and back and is still Playing
C6_Witness ==
    /\ mode = PingPong
    /\ on_complete
    /\ last.op = "update"
    /\ repeat_count >= 1
    /\ state = "Playing"

\* C7: in Repeat(N) mode each update() that brings elapsed_time to or past
\* duration adds one to repeat_count; if the new repeat_count >= N,
\* elapsed_time becomes duration, the state Finished and on_complete is
\* invoked; otherwise elapsed_time wraps modulo duration and the state stays
\* Playing.  For N >= 1 the timeline is Finished exactly when repeat_count = N.
C7_Repeat ==
    /\ [](mode.kind = "Repeat" /\ mode.count >= 1 =>
            /\ repeat_count <= mode.count
            /\ state = "Finished" <=> repeat_count = mode.count)
    /\ [][(mode.kind = "Repeat" /\ Crossing) =>
            IF Target >= duration
            THEN /\ repeat_count' = repeat_count + 1
                 /\ IF repeat_count + 1 >= mode.count
                    THEN /\ elapsed_time' = duration
                         /\ state' = "Finished"
                         /\ fired' = Callback("on_complete")
                    ELSE /\ state' = "Playing"
                         /\ fired' = <<>>
                         /\ duration > 0 => elapsed_time' = Target % duration
            ELSE /\ repeat_count' = repeat_count
                 /\ state' = "Playing"
                 /\ fired' = <<>>
                 /\ elapsed_time' = Target]_vars

\* a Repeat(2) timeline has finished on its second boundary crossing
C7_Witness ==
    /\ mode = Repeat(2)
    /\ duration > 0
    /\ on_complete
    /\ last.op = "update"
    /\ state = "Finished"
    /\ repeat_count = 2
    /\ elapsed_time = duration
    /\ fired = <<"on_complete">>

\* C8: in PingPong mode a forward update that brings elapsed_time to or past
\* duration sets it to duration and reverse to true; while reverse is true an
\* update moves elapsed_time down by delta * speed; an update that brings it
\* to or below 0 sets it to 0, reverse to false and adds one to repeat_count.
C8_PingPong ==
    [][(mode = PingPong /\ Crossing) =>
        /\ state' = "Playing"
        /\ (~reverse /\ Target >= duration) =>
            (elapsed_time' = duration /\ reverse' /\ repeat_count' = repeat_count)
        /\ (~reverse /\ Target < duration) =>
            (elapsed_time' = Target /\ ~reverse' /\ repeat_count' = repeat_count)
        /\ (reverse /\ Target > 0) =>
            /\ elapsed_time' = elapsed_time - Applied * speed
            /\ elapsed_time' <= elapsed_time
            /\ reverse'
            /\ repeat_count' = repeat_count
        /\ (reverse /\ Target <= 0) =>
            (elapsed_time' = 0 /\ ~reverse' /\ repeat_count' = repeat_count + 1)]_vars

\* duration 2.0: after update(2.5) and update(1.0) a further update(1.0) has
\* brought the timeline back to 0, forward again, with repeat_count 1
C8_Witness ==
    /\ mode = PingPong
    /\ duration = 4
    /\ speed = 1
    /\ delay = 0
    /\ last = [op |-> "update", arg |-> 2]
    /\ elapsed_time = 0
    /\ ~reverse
    /\ repeat_count = 1

\* C9: in Loop mode with duration > 0 an update that brings elapsed_time to
\* e >= duration sets elapsed_time to e modulo duration and leaves the state
\* Playing, whatever the delta.
C9_LoopWrap ==
    [][(mode = Loop /\ duration > 0 /\ Crossing /\ Target >= duration) =>
        (elapsed_time' = Target % duration /\ state' = "Playing")]_vars

\* duration 2.0 at twice the speed: update(3.0) from 0 spans three durations
\* and has wrapped to 0
C9_Witness ==
    /\ mode = Loop
    /\ duration = 4
    /\ speed = 2
    /\ delay = 0
    /\ last = [op |-> "update", arg |-> 6]
    /\ state = "Playing"
    /\ elapsed_time = 0
    /\ fired = <<>>

\* C10: for a Once-mode timeline with delay D and speed s that has received
\* updates of total delta T while Playing, elapsed_time is 0 while T < D and
\* min(duration, (T - D) * s) once T >= D.
C10_DelayKeepsTime ==
    (mode = Once /\ state # "Idle" /\ played <= MaxPlayed) =>
        elapsed_time = IF played < delay THEN 0
                       ELSE Min(duration, (played - delay) * speed)

\* the update(2.5) that straddles the end of a delay of 1.5 has given its
\* remaining 1.0 to the animation
C10_Witness ==
    /\ mode = Once
    /\ delay = 3
    /\ speed = 1
    /\ last = [op |-> "update", arg |-> 5]
    /\ played = 5
    /\ delay_elapsed = 5
    /\ state = "Playing"
    /\ elapsed_time = 2

\* C3: update(delta) on a timeline that is not Playing changes no field and
\* invokes no callback, for every delta.
C3_UpdateNoOp ==
    [][(last'.op = "update" /\ state # "Playing") =>
        (UNCHANGED tlvars /\ fired' = <<>>)]_vars

\* update(delta) with delta > 0 has been called on a paused timeline that is
\* part-way through
C3_Witness ==
    /\ last.op = "update"
    /\ last.arg > 0
    /\ state = "Paused"
    /\ ~IsNaN(elapsed_time)
    /\ elapsed_time > 0
    /\ elapsed_time < duration

\* C11: stop() from any state sets state to Idle, elapsed_time, delay_elapsed
\* and repeat_count to 0 and reverse to false, leaves duration, mode, speed,
\* delay and the callbacks as they are and invokes nothing; a second stop()
\* changes nothing.
C11_Stop ==
    [][last'.op = "stop" =>
        /\ state' = "Idle"
        /\ elapsed_time' = 0 /\ delay_elapsed' = 0
        /\ repeat_count' = 0 /\ reverse' = FALSE
        /\ UNCHANGED config
        /\ fired' = <<>>
        /\ last.op = "stop" => UNCHANGED tlvars]_vars

\* stop() has reset a timeline that had finished after a delay
C11_Witness ==
    /\ last.op = "stop"
    /\ before = "Finished"
    /\ duration > 0
    /\ delay > 0
    /\ on_complete
    /\ state = "Idle"
    /\ elapsed_time = 0
    /\ delay_elapsed = 0

\* C12: pause() sets state to Paused when it is Playing and changes nothing
\* from Idle, Paused or Finished; elapsed_time, delay_elapsed, repeat_count
\* and reverse are never changed, and play() right after a pause() of a
\* Playing timeline gives back the timeline as it was before pause().
C12_Pause ==
    [][/\ last'.op = "pause" =>
            /\ state' = IF state = "Playing" THEN "Paused" ELSE state
            /\ UNCHANGED <<elapsed_time, delay_elapsed, repeat_count, reverse>>
            /\ UNCHANGED config
            /\ fired' = <<>>
       /\ (last'.op = "play" /\ last.op = "pause" /\ before = "Playing") =>
            /\ state = "Paused"
            /\ state' = "Playing"
            /\ UNCHANGED <<elapsed_time, delay_elapsed, repeat_count, reverse>>
            /\ UNCHANGED config
            /\ fired' = <<>>]_vars

\* a PingPong timeline on its way back was paused and play() has resumed it
\* where it was
C12_Witness ==
    /\ last.op = "play"
    /\ before = "Paused"
    /\ state = "Playing"
    /\ reverse
    /\ ~IsNaN(elapsed_time)
    /\ elapsed_time > 0
    /\ elapsed_time < duration
    /\ fired = <<>>

\* C13: restart() from any state gives what stop() followed by play() gives:
\* state Playing, elapsed_time, delay_elapsed and repeat_count 0, reverse
\* false, on_start invoked once, the configuration as it was; on_complete is
\* still invoked at most once in the play-through that follows.
C13_Restart ==
    /\ [](completes <= 1)
    /\ [][last'.op = "restart" =>
            /\ state' = "Playing"
            /\ elapsed_time' = 0 /\ delay_elapsed' = 0
            /\ repeat_count' = 0 /\ reverse' = FALSE
            /\ UNCHANGED config
            /\ fired' = Callback("on_start")
            /\ completes' = 0]_vars

\* a timeline that had finished was restarted and has finished again,
\* invoking on_complete again
C13_Witness ==
    /\ replayed
    /\ on_complete
    /\ duration > 0
    /\ last.op = "update"
    /\ state = "Finished"
    /\ fired = <<"on_complete">>
    /\ completes = 1

\* the value start + (end - start) * e(u) as a fraction num/den, for
\* u = (time - t0) / span and e the curve Linear (u) or EaseIn (u * u)
EasedNum(start, end, time, t0, span, easing) ==
    IF easing = "Linear"
    THEN start * span + (end - start) * (time - t0)
    ELSE start * span * span + (end - start) * (time - t0) * (time - t0)

EasedDen(span, easing) == IF easing = "Linear" THEN span ELSE span * span

SameValue(r, num, den) == r.d > 0 /\ r.n * den = r.d * num

\* the result for a time strictly inside the track: the first pair of
\* neighbours around the time, interpolated with the curve of the second
Bracketed(result, time) ==
    \E i \in 1..(Len(track) - 1) :
        LET prev == track[i]
            next == track[i + 1]
            span == next.time - prev.time
        IN  /\ prev.time <= time /\ time <= next.time
            /\ \A j \in 1..(i - 1) : ~(track[j].time <= time /\ time <= track[j + 1].time)
            /\ IF prev.property.kind # next.property.kind
               THEN result = None
               ELSE /\ result.some
                    /\ result.property.kind = next.property.kind
                    /\ Len(result.property.val) = Len(next.property.val)
                    /\ span > 0 =>
                        \A c \in 1..Len(next.property.val) :
                            SameValue(result.property.val[c],
                                      EasedNum(prev.property.val[c].n, next.property.val[c].n,
                                               time, prev.time, span, next.easing),
                                      EasedDen(span, next.easing))

\* C16: get_value_at(time) yields no value on an empty track, the first
\* keyframe's value for a time at or before the first keyframe, else the last
\* keyframe's value for a time at or after the last keyframe, else the value
\* interpolated between the pair of neighbours around the time, at
\* u = (time - prev.time) / (next.time - prev.time) with the easing of next.
C16_GetValueAt ==
    sampled.taken =>
        IF track = <<>> THEN sampled.result = None
        ELSE IF sampled.time <= track[1].time
        THEN sampled.result = Some(track[1].property)
        ELSE IF sampled.time >= track[Len(track)].time
        THEN sampled.result = Some(track[Len(track)].property)
        ELSE Bracketed(sampled.result, sampled.time)

\* Scale keyframes 1, 2, 1 at 0s, 1.0s, 2.0s, Linear into the second: the
\* sample at 0.5s is Scale 1.5
C16_Witness ==
    /\ Len(track) = 3
    /\ track[1] = Keyframe(0, Scale(1, 1), "Linear")
    /\ track[2] = Keyframe(2, Scale(2, 2), "Linear")
    /\ track[3].time = 4 /\ track[3].property = Scale(1, 1)
    /\ sampled.taken
    /\ sampled.time = 1
    /\ sampled.result.some
    /\ sampled.result.property.kind = "Scale"
    /\ sampled.result.property.val = <<Frac(3, 2), Frac(3, 2)>>

\* C17: when exactly two keyframes of a track share the time t,
\* get_value_at(t) yields the value of the second of the two, wherever the
\* pair is in the track.
C17_LaterOfPair ==
    sampled.taken =>
        \A i \in 1..(Len(track) - 1) :
            (/\ track[i].time = sampled.time
             /\ track[i + 1].time = sampled.time
             /\ Cardinality({j \in 1..Len(track) : track[j].time = sampled.time}) = 2)
            => sampled.result = Some(track[i + 1].property)

Sorted(s) == \A i \in 1..(Len(s) - 1) : s[i].time <= s[i + 1].time

Keyframes(trs, name) == IF name \in DOMAIN trs THEN trs[name] ELSE <<>>

WithoutIndex(s, k) == SubSeq(s, 1, k - 1) \o SubSeq(s, k + 1, Len(s))

\* new is old with one keyframe put after every keyframe of its time or
\* earlier and before every later one
PlacedAfterTies(old, new) ==
    \E k \in 1..Len(new) :
        /\ WithoutIndex(new, k) = old
        /\ \A i \in 1..(k - 1) : new[i].time <= new[k].time
        /\ \A i \in (k + 1)..Len(new) : new[i].time > new[k].time

\* C14: after every KeyframeTrack::add_keyframe, in any order of the times,
\* the keyframes are sorted ascending by time and a keyframe is placed after
\* the ones of its own time inserted before it; build() keeps its tracks
\* sorted and the order of the keyframes it found.
C14_SortedStable ==
    /\ [](\A name \in DOMAIN tracks : Sorted(tracks[name]))
    /\ [][\A name \in DOMAIN tracks' :
            \/ Keyframes(tracks, name) = tracks'[name]
            \/ /\ ~built'
               /\ PlacedAfterTies(Keyframes(tracks, name), tracks'[name])
            \/ /\ ~built'
               /\ \E k \in 1..Len(tracks'[name]) :
                    /\ PlacedAfterTies(Keyframes(tracks, name),
                                       WithoutIndex(tracks'[name], k))
                    /\ PlacedAfterTies(WithoutIndex(tracks'[name], k), tracks'[name])
            \/ /\ built'
               /\ Len(tracks'[name]) = Len(tracks[name]) + 1
               /\ SubSeq(tracks'[name], 2, Len(tracks'[name])) = tracks[name]]_vars

\* add_keyframe at 1.5s and then move_to(.., 0) gave the channel two keyframes
\* of one time, the later call's after the earlier one's, and build() has
\* put its keyframe before them
C14_Witness ==
    /\ built
    /\ "position" \in DOMAIN tracks
    /\ tracks["position"] = <<Keyframe(0, Position(0, 0), "Linear"),
                              Keyframe(3, Position(1, 1), "Linear"),
                              Keyframe(3, Position(2, 0), "EaseIn")>>

LastTimes == {tracks[name][Len(tracks[name])].time : name \in DOMAIN tracks}

\* C15: after every AnimationTimeline::add_keyframe on any channel and after
\* build(), duration is the largest of the times of the tracks' last
\* keyframes, 0 when there is no keyframe.
C15_Duration ==
    IF LastTimes = {} THEN duration = 0
    ELSE /\ duration \in LastTimes
         /\ \A t \in LastTimes : t <= duration

\* two channels end at different times, the later one first in the chain
\* (add_keyframe("glow", 1.5s) sets the cursor to 1.5s, so "position" can end
\* at 0 only by an add_keyframe after it), and build() has run
C15_Witness ==
    /\ built
    /\ DOMAIN tracks = {"glow", "position"}
    /\ tracks["glow"][Len(tracks["glow"])].time = 3
    /\ tracks["position"][Len(tracks["position"])].time = 0
    /\ duration = 3

\* the call put one keyframe at the time `at` on the channel and nothing
\* anywhere else
Appended(channel, at) ==
    /\ DOMAIN tracks' = DOMAIN tracks \cup {channel}
    /\ \A name \in DOMAIN tracks : name # channel => tracks'[name] = tracks[name]
    /\ \E k \in 1..Len(tracks'[channel]) :
        /\ tracks'[channel][k].time = at
        /\ WithoutIndex(tracks'[channel], k) = Keyframes(tracks, channel)

ChainCall(channel, d) ==
    /\ Appended(channel, current_time + d)
    /\ current_time' = current_time + d
    /\ chain_sum >= 0 => Appended(channel, chain_sum')

\* C19: move_to, rotate_to, scale_to (through scale_to_xy), color_to and
\* fade_to with duration d each put exactly one keyframe on their own channel
\* at current_time + d and advance current_time by d; in a chain of these
\* calls and wait the cursor is the sum of the durations so far, and so is
\* the time of the keyframe a call places.
C19_ChainCalls ==
    /\ [](chain_sum >= 0 => current_time = chain_sum)
    /\ [][\A d \in BuilderDurations :
            /\ (\E e \in Easing : MoveTo(d, e)) => ChainCall("position", d)
            /\ RotateTo(d) => ChainCall("rotation", d)
            /\ ScaleTo(d) => ChainCall("scale", d)
            /\ ColorTo(d) => ChainCall("color", d)
            /\ (\E o \in FadeArgs : FadeTo(o, d)) => ChainCall("opacity", d)]_vars

\* a chain with a move_to and a later rotate_to: the rotation keyframe is at
\* the sum of the durations, 1.5s, past the position keyframe at 0.5s
C19_Witness ==
    /\ chain_sum = 3
    /\ current_time = 3
    /\ DOMAIN tracks = {"position", "rotation"}
    /\ tracks["position"][1].time = 1
    /\ tracks["rotation"][1].time = 3

\* C20: wait(d) advances the cursor by d and changes nothing else: no track
\* gets a keyframe and duration, mode, speed and delay stay as they are.
C20_Wait ==
    [][\A d \in BuilderDurations :
        Wait(d) => /\ current_time' = current_time + d
                   /\ UNCHANGED <<tracks, duration, mode, speed, delay, built>>]_vars

\* a chain of calls with durations ends in a wait: the cursor is past the
\* last keyframe
C20_Witness ==
    /\ chain_sum >= 0
    /\ tracks # <<>>
    /\ current_time > duration

Mismatch(a, b) == a.kind # b.kind \/ (a.kind = "Custom" /\ a.name # b.name)

\* time is strictly inside the track and the first pair of neighbours around
\* it holds properties that do not interpolate
BetweenMismatched(keyframes, time) ==
    /\ Len(keyframes) >= 2
    /\ time > keyframes[1].time
    /\ time < keyframes[Len(keyframes)].time
    /\ \E i \in 1..(Len(keyframes) - 1) :
        /\ keyframes[i].time <= time /\ time <= keyframes[i + 1].time
        /\ \A j \in 1..(i - 1) : ~(keyframes[j].time <= time /\ time <= keyframes[j + 1].time)
        /\ Mismatch(keyframes[i].property, keyframes[i + 1].property)

Writes(field) ==
    CASE field = "translation" -> {"Position"}
      [] field = "rotation" -> {"Rotation"}
      [] field = "scale" -> {"Scale"}
      [] field = "color" -> {"Color", "Opacity"}

\* C18: interpolating properties of different variants, or Custom properties
\* of different names, yields no value; get_current_values() leaves out a
\* channel sampled between two such keyframes, and the application pass of
\* that frame changes a field of the target only through a channel that did
\* produce a value.
C18_NoValue ==
    /\ [](\A a, b \in FrameProperties, e \in Easing :
            Mismatch(a, b) => interpolate(a, b, Frac(1, 2), e) = None)
    /\ [][(last'.op = "update" /\ frame'.applied) =>
            /\ \A name \in DOMAIN tracks :
                BetweenMismatched(tracks[name], elapsed_time')
                    => name \notin DOMAIN frame'.values
            /\ \A field \in {"translation", "rotation", "scale", "color"} :
                target'[field] # target[field]
                    => \E name \in DOMAIN frame'.values :
                            frame'.values[name].kind \in Writes(field)]_vars

\* the first frame, at 0.5s, put the position of the keyframe at 1.0s on the
\* target; the second, at 1.5s, is between that keyframe and a rotation
\* keyframe at 2.0s on the same channel: no value, and the translation stays
C18_Witness ==
    /\ frame.applied
    /\ frame.values = <<>>
    /\ elapsed_time = 3
    /\ DOMAIN tracks = {"position"}
    /\ tracks["position"] = <<Keyframe(2, Position(2, 4), "Linear"),
                              Keyframe(4, Rotation(1), "Linear")>>
    /\ target = [NewTarget EXCEPT !.translation = <<R(2), R(4), R(0)>>]

Identity(p) ==
    CASE p.kind = "Position" -> Position(0, 0)
      [] p.kind = "Rotation" -> Rotation(0)
      [] p.kind = "Scale" -> Scale(1, 1)
      [] p.kind = "Color" -> Color(1, 1, 1, 1)
      [] p.kind = "Opacity" -> Opacity(1)
      [] p.kind = "Custom" -> Custom(p.name, 0)

\* what build() does to the tracks: one Linear keyframe at 0 with the identity
\* of the first keyframe's variant before a track that starts after 0, no
\* change to the others
BuildInserts ==
    Build => /\ DOMAIN tracks' = DOMAIN tracks
             /\ \A name \in DOMAIN tracks :
                    tracks'[name] =
                        IF tracks[name][1].time > 0
                        THEN <<Keyframe(0, Identity(tracks[name][1].property), "Linear")>>
                             \o tracks[name]
                        ELSE tracks[name]

\* C21: build() puts exactly one Linear keyframe at time 0, holding the
\* identity value of the variant, before every channel whose first keyframe is
\* later than 0 and leaves the other channels as they are, so that after
\* build() every non-empty track starts at time 0.
C21_BuildIdentity ==
    /\ [](built => \A name \in DOMAIN tracks : tracks[name][1].time = 0)
    /\ [][BuildInserts]_vars

\* C25: every keyframe stored in a track has a time that is not negative.
C25_NonNegativeTimes ==
    \A name \in DOMAIN tracks :
        \A i \in 1..Len(tracks[name]) : tracks[name][i].time >= 0

\* the last keyframe of the channel holds the value of the keyframe before it
\* (zeros when it is the only one) plus delta on every axis
HoldsPreviousPlus(channel, delta) ==
    /\ channel \in DOMAIN tracks'
    /\ LET keyframes == tracks'[channel]
           n == Len(keyframes)
           new == keyframes[n].property.val
       IN  \A i \in DOMAIN new :
                new[i] = RAdd(IF n = 1 THEN R(0) ELSE keyframes[n - 1].property.val[i],
                              R(delta))

\* C30: the keyframe move_by and rotate_by append (the last of its channel,
\* the cursor being at or past every keyframe) holds the value of the
\* channel's previous keyframe, zero when there is none, plus the delta.
C30_Relative ==
    [][\A d \in BuilderDurations :
        /\ MoveBy(d) => HoldsPreviousPlus("position", ByDelta)
        /\ RotateBy(d) => HoldsPreviousPlus("rotation", ByDelta)]_vars

\* the values the tracks give at the elapsed_time of the next state
Sampled == get_current_values(tracks, elapsed_time')

\* C22: every frame calls update(delta) once and then, in the same frame,
\* applies get_current_values() to the entity: after every frame in which
\* update ran on a Playing timeline (with auto_apply on), also the one that
\* finishes it, the target holds the values sampled at the new elapsed_time
\* (applying them again, in some order, changes nothing).
C22_FrameApplies ==
    [][(last'.op = "update" /\ state = "Playing" /\ auto_apply) =>
        \E order \in Orders(DOMAIN Sampled) :
            apply_values(target', Sampled, order) = target']_vars

\* C23: the alpha of the material is always within [0, 1].
C23_AlphaInRange ==
    LET alpha == target.color[4]
    IN  alpha.d > 0 /\ alpha.n >= 0 /\ alpha.n <= alpha.d

\* C26: the alpha a frame's application pass leaves is the same for every
\* order in which the channel map can be walked.
C26_AlphaOrderFree ==
    [][(last'.op = "update" /\ frame'.applied) =>
        \A order \in Orders(DOMAIN frame'.values) :
            apply_values(target, frame'.values, order).color[4] = target'.color[4]]_vars

\* what apply_to_transform may write for a property: x and y of the
\* translation for Position, the rotation for Rotation, x and y of the scale
\* for Scale, nothing for the other variants
WritesOwnFields(p, tg) ==
    LET after == apply_to_transform(p, tg)
    IN  CASE p.kind = "Position" ->
                after = [tg EXCEPT !.translation =
                            <<p.val[1], p.val[2], tg.translation[3]>>]
          [] p.kind = "Rotation" ->
                after = [tg EXCEPT !.rotation = after.rotation]
          [] p.kind = "Scale" ->
                after = [tg EXCEPT !.scale = <<p.val[1], p.val[2], tg.scale[3]>>]
          [] OTHER -> after = tg

\* C28: apply_to_transform writes only the fields of its variant: Position the
\* x and y of the translation, Scale the x and y of the scale, Rotation the
\* rotation, Color, Opacity and Custom nothing; no frame changes the z of the
\* translation or of the scale.
C28_OwnFields ==
    /\ [](\A p \in FrameProperties : WritesOwnFields(p, target))
    /\ [][last'.op = "update" =>
            /\ target'.translation[3] = target.translation[3]
            /\ target'.scale[3] = target.scale[3]]_vars

\* a frame has put a position and a scale on an entity spawned with a depth
\* of 5 and a z scale of 3: both are still there
C28_Witness ==
    /\ frame.applied
    /\ DOMAIN frame.values = {"position", "scale"}
    /\ target.translation = <<R(2), R(4), R(5)>>
    /\ target.scale = <<R(2), R(3), R(3)>>

\* C24: progress() is elapsed_time / duration clamped to [0, 1] when the
\* duration is positive and 0 when the duration is 0; it is never the NaN or
\* the infinity of a division by zero.
C24_Progress ==
    LET p == progress(Self)
    IN  /\ duration = 0 => p = R(0)
        /\ (duration > 0 /\ ~IsNaN(elapsed_time)) =>
                /\ p.d > 0
                /\ IF elapsed_time <= 0 THEN p = R(0)
                   ELSE IF elapsed_time >= duration THEN p = R(1)
                   ELSE p.n * duration = elapsed_time * p.d
        /\ IsNaN(elapsed_time) \/ p.d # 0

\* half way through a timeline of 2.0s
C24_Witness ==
    /\ state = "Playing"
    /\ duration = 4
    /\ elapsed_time = 2
    /\ progress(Self) = Frac(1, 2)

\* C29: whatever set_speed and set_delay (and with_speed, with_delay, which
\* call them) are handed, speed and delay are not negative, so an update()
\* never moves elapsed_time against the direction of playback: forward it does
\* not decrease short of the duration, in reverse it does not increase short
\* of 0, and in Once mode it never decreases.
C29_SpeedDelay ==
    /\ [](speed >= 0 /\ delay >= 0)
    /\ [][Crossing =>
            /\ (~reverse /\ Target < duration) =>
                    elapsed_time' = Target /\ elapsed_time' >= elapsed_time
            /\ (reverse /\ Target > 0) =>
                    elapsed_time' = Target /\ elapsed_time' <= elapsed_time
            /\ mode = Once => elapsed_time' >= elapsed_time]_vars

\* set_speed(-0.5) has just left the speed at 0
C29_Witness ==
    /\ last = [op |-> "set_speed", arg |-> -1]
    /\ speed = 0
    /\ delay = 0

\* C27: every curve gives 0 at 0 and 1 at 1, and for an argument outside
\* [0, 1] what it gives at the nearer end.
C27_Endpoints ==
    eased.taken =>
        /\ ~RLt(R(0), eased.t) => eased.value = R(0)
        /\ ~RLt(eased.t, R(1)) => eased.value = R(1)

\* EaseOutBack, whose curve leaves [0, 1] on the way, was applied to 3.0
C27_Witness ==
    /\ eased.taken
    /\ eased.easing = "EaseOutBack"
    /\ eased.t = R(3)
    /\ eased.value = R(1)

\* C36: with the mode set before play(), reverse is true only in PingPong
\* mode; in the modes Once, Loop and Repeat(N) elapsed_time goes down only
\* in stop() (restart() calls it) and in an update() that wraps at duration.
C36_ReverseOnlyPingPong ==
    /\ [](reverse => mode.kind = "PingPong")
    /\ [][(mode.kind # "PingPong" /\ FLt(elapsed_time', elapsed_time)) =>
            \/ last'.op \in {"stop", "restart"}
            \/ /\ mode.kind \in {"Loop", "Repeat"}
               /\ Crossing
               /\ Target >= duration]_vars

\* a Repeat(2) timeline played forward over its first wrap
C36_Witness ==
    /\ mode = Repeat(2)
    /\ state = "Playing"
    /\ last.op = "update"
    /\ repeat_count = 1
    /\ duration = 4
    /\ elapsed_time = 1
    /\ ~reverse

\* C37: an update() adds at most one to repeat_count, and a Repeat(N)
\* timeline with N >= 1 and a duration above 0 is Finished only after at
\* least N update() calls since play().
C37_OnePerUpdate ==
    /\ [](mode.kind = "Repeat" /\ mode.count >= 1 /\ duration > 0 /\ state = "Finished"
            => updates >= mode.count)
    /\ [][last'.op = "update" =>
            /\ repeat_count' >= repeat_count
            /\ repeat_count' <= repeat_count + 1]_vars

\* Repeat(2) over 1.5s at speed 2 finished by its second update of 3.0s,
\* each of which spans four durations
C37_Witness ==
    /\ mode = Repeat(2)
    /\ duration = 3
    /\ speed = 2
    /\ last = [op |-> "update", arg |-> 6]
    /\ state = "Finished"
    /\ repeat_count = 2
    /\ updates = 2

C39_NoZeroSegment ==
    sampled.taken => \A i \in 1..Len(divided) : divided[i] > 0

\* the time sampled is shared by two keyframes inside the track, and the
\* segment before them was divided on
C39_Witness ==
    /\ sampled.taken
    /\ Len(track) = 4
    /\ track[1].time < sampled.time
    /\ track[2].time = sampled.time
    /\ track[3].time = sampled.time
    /\ track[4].time > sampled.time
    /\ divided = <<track[2].time - track[1].time>>

\* C40: the timeline a preset with a duration argument returns (bounce,
\* pulse, shake, fade_in, fade_out) is Idle, its duration is that argument,
\* and every track of it starts with a keyframe at time 0.
C40_Presets ==
    last.op \in {"bounce", "pulse", "shake", "fade_in", "fade_out"} =>
        /\ state = "Idle"
        /\ duration = last.arg
        /\ \A name \in DOMAIN tracks : tracks[name][1].time = 0

\* C31: after a frame with a left click on empty space in which the select
\* systems ran, no entity has Selected, no SelectionBorder entity is left,
\* CurrentSelection is empty and the InteractionMode is None.
C31_EmptyClickDeselects ==
    (phase = "boundary" /\ left = "pressed" /\ cursor = NoEntity /\ "select" \in ran) =>
        /\ selected = {}
        /\ DOMAIN border_parent = {}
        /\ selected_entity = NoEntity
        /\ border_entity = NoEntity
        /\ interaction_mode = "None"

\* C32: between frames at most one entity has Selected and at most one
\* SelectionBorder entity exists.
C32_OneSelection ==
    phase = "boundary" =>
        /\ Cardinality(selected) <= 1
        /\ Cardinality(DOMAIN border_parent) <= 1

\* C33: between frames selected_entity is Some(e) exactly when e has
\* Selected, and border_entity is then a border that exists and whose parent
\* is e (so after a click on B while A is selected: Some(B) and B's border).
C33_SelectionTracked ==
    phase = "boundary" =>
        /\ \A e \in alive : selected_entity = e <=> e \in selected
        /\ selected_entity # NoEntity =>
              /\ border_entity \in DOMAIN border_parent
              /\ border_parent[border_entity] = selected_entity
        /\ selected_entity = NoEntity => border_entity = NoEntity

\* C34: between frames an entity has Dragging only if the InteractionMode is
\* Dragging, and after the frame in which the button of a drag is released
\* no entity has Dragging and the mode is None, in whatever order the
\* systems of the three chains ran.
C34_DraggingOnlyInMode ==
    phase = "boundary" =>
        /\ dragging # {} => interaction_mode = "Dragging"
        /\ (left = "released" /\ mode0 = "Dragging") =>
              dragging = {} /\ interaction_mode = "None"

\* C35: between frames the InteractionMode is Transforming exactly when one
\* GeometryPreview entity exists, and there is never more than one; a start
\* event is written only in mode None; after a frame with a left click the
\* preview of its beginning has lost GeometryPreview and Transforming, has
\* Draggable, Selectable and GeometryBounds, and the mode is None; after a
\* frame with Escape and no click it is despawned and the mode is None.
C35_OnePreview ==
    /\ [](Cardinality(preview) <= 1)
    /\ [](phase = "boundary" =>
            /\ interaction_mode = "Transforming" <=> Cardinality(preview) = 1
            /\ (mode0 = "Transforming" /\ left = "pressed") =>
                  /\ interaction_mode = "None"
                  /\ \A p \in preview0 :
                        /\ p \notin preview \cup transforming
                        /\ p \in alive
                        /\ p \in draggable \cap selectable \cap bounds
            /\ (mode0 = "Transforming" /\ left # "pressed" /\ key = "Escape") =>
                  /\ interaction_mode = "None"
                  /\ \A p \in preview0 : p \notin alive)
    /\ [][Len(start_transform_events') > Len(start_transform_events) =>
            interaction_mode = "None"]_vars

\* a preview that a left click has confirmed
C35_Witness ==
    /\ phase = "boundary"
    /\ mode0 = "Transforming"
    /\ left = "pressed"
    /\ preview0 # {}
    /\ preview = {}
    /\ preview0 \subseteq draggable
    /\ interaction_mode = "None"

====
